---- MODULE Spec2Model ----
(***************************************************************************)
(* Model of the SOMweb polling coordinator                                 *)
(* (custom_components/somweb/coordinator.py).                              *)
(*                                                                         *)
(* Every await on the session client is one step of the task that makes    *)
(* it: the step is the return of the awaited call together with the        *)
(* synchronous code that follows it up to the next await.  The outcome of  *)
(* a client call (a value or an exception) is chosen nondeterministically. *)
(* Task "main" runs async_setup and afterwards the scheduled poll cycles,  *)
(* task "act" runs async_execute_door_action including the refresh it      *)
(* forces.  Spec explores the runs in which a door action and a scheduled  *)
(* poll cycle do not overlap.                                              *)
(*                                                                         *)
(* The variable ev is a history variable: it describes what the latest     *)
(* step completed (a reconnection, a firmware refresh, a poll cycle, a     *)
(* door action), so that the properties can speak about completed          *)
(* operations.                                                             *)
(***************************************************************************)
EXTENDS Integers, Sequences, FiniteSets, TLC

(* ------------------------------ bounds --------------------------------- *)
MaxDoors == 2           \* longest door list the device reports
MaxTime == 12           \* the clock stops here (hours)
TickHours == 6          \* the clock advances in steps of this many hours
MaxMigrations == 2      \* runs of async_migrate_entry on one entry
MaxReloads == 1         \* runs of async_reload_entry on one entry
MaxCommands == 2        \* door commands given to one cover entity

(* ----------------------------- constants ------------------------------- *)
FIRMWARE_CHECK_HOURS == 12

None == "None"          \* no DeviceInfo held
Never == -1             \* _last_firmware_check is None
NoData == << >>         \* coordinator.data before the first publication
Raise == "raise"        \* a client call ends with an exception
Bool == {"true", "false"}
DoorStatusType == {"OPEN", "CLOSED", "UNKNOWN"}
DoorActionType == {"OPEN", "CLOSE"}
DeviceInfo == {"infoA", "infoB"}
ActTasks == {"act", "act2"}    \* coroutines running async_execute_door_action
Tasks == {"main"} \cup ActTasks
DoorLists == {[i \in 1..n |-> i] : n \in 0..MaxDoors}
DoorIdInputs == {1}     \* a door of the list, or of no door when the list is empty
NoStatuses == [k \in {} |-> "UNKNOWN"]

VARIABLES
  now,                          \* dt_util.utcnow(), in hours
  is_admin,                     \* client.is_admin
  phase,                        \* "setup", "ready", "not_ready", "raised"
  _doors,                       \* self._doors (door ids, in list order)
  _device_info,                 \* self._device_info
  _firmware_update_available,   \* self._firmware_update_available
  _last_firmware_check,         \* self._last_firmware_check
  data,                         \* coordinator.data, the published snapshot
  pc,                           \* the await each task is suspended at
  door_idx,                     \* position of the door loop of each task
  door_statuses,                \* local dict door_statuses of each task
  inv,                          \* door_id, target_state, action of the door
                                \* action, and the history of the invocation
  cyc,                          \* history of the poll cycle a task is in
  rcrun,                        \* history of the reconnection a task is in
  fwrun,                        \* history of the firmware refresh a task is in
  ev,                           \* history: what the latest step completed
  fw_ok_at,                     \* history: when a refresh last succeeded
  ever_admin,                   \* history: is_admin has been true
  fw_called,                    \* history: a firmware/device-info call was made
  dev,                          \* what the device does to the client's calls
  flow,                         \* the config flows in progress
  entries,                      \* the config entries of the domain
  fev,                          \* history: what the latest flow step ended with
  setup_entry,                  \* async_setup_entry of the integration
  runtime_data,                 \* entry.runtime_data has been set
  platforms,                    \* the platforms the entry was forwarded to
  entities,                     \* the binary sensors added for the entry
  config_entry,                 \* the stored entry handed to the migration
  migrated,                     \* history: the runs of async_migrate_entry
  cover,                        \* the fields of one SomwebDoor entity
  cpc,                          \* the await each coroutine of the entity is at
  cev                           \* history: what the entity's latest step did

coordVars == <<now, is_admin, phase, _doors, _device_info,
               _firmware_update_available, _last_firmware_check, data,
               pc, door_idx, door_statuses, inv, cyc, rcrun, fwrun, ev,
               fw_ok_at, ever_admin, fw_called, dev>>

flowVars == <<flow, entries, fev>>

entryVars == <<setup_entry, runtime_data, platforms, entities>>
migrateVars == <<config_entry, migrated>>
coverVars == <<cover, cpc, cev>>
hostVars == <<entryVars, migrateVars, coverVars>>
standbyVars == <<platforms, entities, migrateVars, coverVars>>

vars == <<coordVars, flowVars, hostVars>>

envVars == <<now, is_admin, ever_admin, dev>>
runVars == <<phase, _doors, _device_info, _firmware_update_available,
             _last_firmware_check, data, pc, door_idx, door_statuses, inv,
             cyc, rcrun, fwrun, fw_ok_at, fw_called>>
fwVars == <<_device_info, _firmware_update_available, _last_firmware_check,
            fw_ok_at>>

(* ------------------------------ values --------------------------------- *)
SomwebData(di, doors, fw) ==
  [device_info |-> di, doors |-> doors, firmware_update_available |-> fw]

NoSnapshot == SomwebData(None, NoStatuses, FALSE)

DoorIds == {_doors[i] : i \in 1..Len(_doors)}

Held == <<_device_info, _firmware_update_available, _last_firmware_check>>

(* what the coordinator holds: the published snapshot, the door list, and  *)
(* the firmware fields                                                     *)
CoordinatorState == [data |-> data, doors |-> _doors, held |-> Held]

NoCycle == [alive |-> "-", rc |-> "-", q |-> NoStatuses, fwstep |-> "-",
            out |-> "-", snap |-> NoData, old |-> {}, over |-> {}]
NoMark == [at |-> "-", door |-> 0]
NoReconnect == [alive |-> "-", auth |-> "-", ret |-> "-"]
NoFirmware == [st |-> "-", site |-> "-", pre |-> <<None, FALSE, Never>>]
NoAction == [door |-> 0, target |-> "UNKNOWN", action |-> "CLOSE",
             trace |-> << >>, calls |-> 0, refresh_raised |-> FALSE,
             result |-> "-",
             pre |-> [data |-> NoData, doors |-> << >>,
                      held |-> <<None, FALSE, Never>>]]
NoEvent == [task |-> "-", cyc |-> NoCycle, rc |-> NoReconnect,
            fw |-> NoFirmware, act |-> NoAction]

Outcome(r) == CASE r \in {"true", "returned"} -> "T"
                [] r = "false" -> "F"
                [] OTHER -> "X"

(* one entry of the trace of a door action: a client call it made with the *)
(* door and the action or target passed and the outcome, or the refresh    *)
Call(name, door, arg, r) ==
  [call |-> name, door |-> door, arg |-> arg, out |-> Outcome(r)]

Count(trace, name) == Cardinality({i \in 1..Len(trace) : trace[i].call = name})

Raised(trace) == \E i \in 1..Len(trace) : trace[i].out = "X"

(* ------------------------ config flow: values -------------------------- *)
MODE_LOCAL == "local"
MODE_CLOUD == "cloud"

Flows == {"user", "zeroconf", "reconfigure"}   \* the sources of a flow
NoEntryId == 0                  \* the flow context holds no entry_id
EntryIds == 1..2                \* entry ids: the position of an entry, or of none
Udis == {"udi1", "udi2"}        \* the identifiers devices report
IdInputs == {None, "", "udi1"}               \* a field absent from the input,
UrlInputs == {None, "", "http://10.0.0.7"}   \* left empty, or filled in
UsernameInputs == {"", "user"}
PasswordInputs == {"", "secret"}
(* the submissions explored: the field the mode reads (the URL in local    *)
(* mode, the UDI in cloud mode) is absent, empty or filled in, the other   *)
(* one is absent or filled in                                              *)
UserInputs ==
  {d \in [mode : {MODE_CLOUD, MODE_LOCAL}, id : IdInputs, url : UrlInputs,
          username : UsernameInputs, password : PasswordInputs] :
     /\ d.mode = MODE_LOCAL => d.id # ""
     /\ d.mode = MODE_CLOUD => d.url # ""}
Credentials == [username : UsernameInputs, password : PasswordInputs]
Hosts == {"10.0.0.7"}
Hostnames == {<<"s", "o", "m", "w", "e", "b", ".", "l", "o", "c", "a", "l", ".">>,
              <<"S", "O", "M", "w", "e", "b", "-", "2">>,
              <<"s", "o", "m", "w", "e", ".", ".">>,
              <<"m", "y", "s", "o", "m", "w", "e", "b">>,
              <<"o", "t", "h", "e", "r", ".">>,
              << >>}

NoInput == [mode |-> "-", id |-> None, url |-> None, username |-> None,
            password |-> None]
NoDiscovery == [url |-> None, mode |-> "-", id |-> None]
NoClient == [constructed |-> 0, closed |-> 0]
NoFlow == [pc |-> "none", step |-> "-", input |-> NoInput,
           discovery_info |-> NoDiscovery, unique_id |-> None,
           entry_id |-> NoEntryId,
           pending |-> "-", udi |-> None, client |-> NoClient, calls |-> << >>]
NoHostname == <<"?">>           \* the step was given no hostname
NoFlowEvent == [flow |-> "-", step |-> "-", result |-> "-", errors |-> {},
                hostname |-> NoHostname,
                reason |-> "-", validate |-> "-", input |-> NoInput,
                udi |-> None, title |-> None, client |-> NoClient, calls |-> << >>]

FlowInit ==
  /\ flow = [f \in Flows |-> NoFlow]
  /\ entries = << >>
  /\ fev = NoFlowEvent

(* ------------------- the device behind the client ---------------------- *)
(* dev = "any": every client call may return any value or raise.           *)
(* dev = "up": the device is reachable and the session is valid.           *)
(* dev = "lost": the device is reachable but the session is lost: is_alive *)
(*   returns true, door queries and actions fail until authenticate has    *)
(*   been called again.                                                    *)
(* dev = "down": the device is unreachable.                                *)
Reachable == {"up", "lost"}
InSession == {"up"}

IsAliveResults ==
  CASE dev = "any" -> Bool \cup {Raise}
    [] dev \in Reachable -> {"true"}
    [] OTHER -> {"false", Raise}

AuthenticateResults ==
  CASE dev = "any" -> Bool \cup {Raise}
    [] dev \in Reachable -> {"true"}
    [] OTHER -> {Raise}

DoorStatusResults ==
  CASE dev = "any" -> DoorStatusType \cup {Raise}
    [] dev \in InSession -> {"OPEN", "CLOSED"}
    [] OTHER -> {Raise}

DoorActionResults ==
  CASE dev = "any" -> Bool \cup {Raise}
    [] dev \in InSession -> {"true"}
    [] dev = "lost" -> {"false"}
    [] OTHER -> {"false", Raise}

WaitResults ==
  CASE dev = "any" -> {"returned", Raise}
    [] dev \in InSession -> {"returned"}
    [] OTHER -> {Raise}

DeviceInfoResults ==
  CASE dev = "any" -> DeviceInfo \cup {Raise}
    [] dev \in InSession -> DeviceInfo
    [] OTHER -> {Raise}

UpdateAvailableResults ==
  CASE dev = "any" -> Bool \cup {Raise}
    [] dev \in InSession -> Bool
    [] OTHER -> {Raise}

(* ------------------- the integration's entry points ------------------- *)
PLATFORMS == {"cover", "binary_sensor"}

(* async_setup_entry not called: no client, no call made, no coordinator   *)
NoSetupEntry == [pc |-> "-", url |-> None, client |-> "-", calls |-> << >>,
                 coordinator |-> FALSE, result |-> "-", reloads |-> 0,
                 pre |-> [runtime_data |-> FALSE, phase |-> "setup",
                          doors |-> << >>]]

EntryIdle ==
  /\ setup_entry = NoSetupEntry
  /\ runtime_data = FALSE
  /\ platforms = {}
  /\ entities = {}

(* the keys of the data of a stored entry *)
CONF_ID == "id"
CONF_USERNAME == "username"
CONF_PASSWORD == "password"
CONF_URL == "url"

(* the data of a stored entry: a dict over the keys it has.  An entry      *)
(* written before minor version 2 has no URL key.                          *)
EntryData(id, username, url) ==
  [k \in {CONF_ID, CONF_USERNAME, CONF_PASSWORD} \cup
         (IF url = "absent" THEN {} ELSE {CONF_URL}) |->
     CASE k = CONF_ID       -> id
       [] k = CONF_USERNAME -> username
       [] k = CONF_PASSWORD -> "secret"
       [] OTHER             -> url]

StoredEntries ==
  {[version |-> v, minor_version |-> m, data |-> EntryData(id, username, url)] :
     v \in 1..2, m \in 1..3, id \in Udis, username \in {"user", "admin"},
     url \in {"absent", None, "http://10.0.0.7"}}

NoConfigEntry == [version |-> 1, minor_version |-> 2,
                  data |-> EntryData("udi1", "user", None)]
NoMigration == [runs |-> 0, first |-> NoConfigEntry, before |-> NoConfigEntry,
                returned |-> "-"]

MigrateIdle ==
  /\ config_entry = NoConfigEntry
  /\ migrated = NoMigration

(* the coroutines of one cover entity: the door commands that may be under *)
(* way at the same time, and the update the host framework runs every      *)
(* SCAN_INTERVAL                                                           *)
CmdTasks == {"cmd1", "cmd2"}
CoverTasks == CmdTasks \cup {"upd"}

(* SomwebDoor.__init__ *)
NoCover == [_state |-> "UNKNOWN", _is_opening |-> FALSE, _is_closing |-> FALSE,
            _available |-> TRUE]
NoCommand == [position |-> "-", path |-> "-", forced |-> "-", trace |-> << >>]
NoCoverEvent == [begun |-> 0,
                 cmd |-> [t \in CmdTasks |-> NoCommand],
                 done |-> NoCommand, upd |-> "-"]

CoverIdle ==
  /\ cover = NoCover
  /\ cpc = [t \in CoverTasks |-> "idle"]
  /\ cev = NoCoverEvent

(* __init__.py lines 65-71: async_setup_entry goes on in the step in which *)
(* the last await of coordinator.async_setup ends.  When async_setup       *)
(* returned, runtime_data is set and the coroutine suspends in             *)
(* async_forward_entry_setups; ConfigEntryNotReady of the first refresh    *)
(* ("not_ready") and an exception of get_doors ("raised") leave            *)
(* async_setup_entry as they are.                                          *)
EntryFollows ==
  IF setup_entry.pc = "coordinator_setup" /\ phase = "setup" /\ phase' # "setup"
    THEN IF phase' = "ready"
           THEN /\ setup_entry' = [setup_entry EXCEPT !.pc = "forward"]
                /\ runtime_data' = TRUE
           ELSE /\ setup_entry' = [setup_entry EXCEPT !.pc = "done",
                                                      !.result = phase']
                /\ runtime_data' = runtime_data
    ELSE UNCHANGED <<setup_entry, runtime_data>>

(* the state after SomwebDataUpdateCoordinator.__init__ *)
Constructed ==
  /\ now = 0
  /\ is_admin \in BOOLEAN
  /\ ever_admin = is_admin
  /\ fw_called = FALSE
  /\ fw_ok_at = Never
  /\ phase = "setup"
  /\ _doors = << >>
  /\ _device_info = None
  /\ _firmware_update_available = FALSE
  /\ _last_firmware_check = Never
  /\ data = NoData
  /\ pc = [t \in Tasks |-> IF t = "main" THEN "setup_get_doors" ELSE "idle"]
  /\ door_idx = [t \in Tasks |-> 0]
  /\ door_statuses = [t \in Tasks |-> NoStatuses]
  /\ cyc = [t \in Tasks |-> NoCycle]
  /\ rcrun = [t \in Tasks |-> NoReconnect]
  /\ fwrun = [t \in Tasks |-> NoFirmware]
  /\ inv = [t \in ActTasks |-> NoAction]
  /\ ev = NoEvent

HostInit ==
  /\ EntryIdle
  /\ MigrateIdle
  /\ CoverIdle

Init ==
  /\ dev = "any"
  /\ Constructed
  /\ FlowInit
  /\ HostInit

(* a coordinator constructed for a device that is up *)
InitDevice ==
  /\ dev = "up"
  /\ Constructed
  /\ FlowInit
  /\ HostInit

(* ----------------------- what happens to the device -------------------- *)
DeviceStep(from, to) ==
  /\ dev \in from
  /\ dev' = to
  /\ ev' = NoEvent
  /\ UNCHANGED <<hostVars, flowVars, now, is_admin, ever_admin, fw_called, phase, _doors,
                 fwVars, data, pc, door_idx, door_statuses, cyc, rcrun, fwrun,
                 inv>>

session_lost == DeviceStep({"up"}, "lost")
device_unreachable == DeviceStep({"up", "lost"}, "down")
device_reachable == DeviceStep({"down"}, "up") \/ DeviceStep({"down"}, "lost")

(* --------------------------- wall clock -------------------------------- *)
Tick ==
  /\ now + TickHours <= MaxTime
  /\ now' = now + TickHours
  /\ ev' = NoEvent
  /\ UNCHANGED <<hostVars, flowVars, is_admin, ever_admin, dev, fw_called, phase, _doors, fwVars, data,
                 pc, door_idx, door_statuses, cyc, rcrun, fwrun, inv>>

(* a variant of _should_check_firmware without the throttle *)
_should_check_firmware_always == TRUE

(* a variant of _should_check_firmware that counts the interval from the  *)
(* start of the clock while no check has been recorded                     *)
_should_check_firmware_from_start ==
  now - (IF _last_firmware_check = Never THEN 0 ELSE _last_firmware_check)
    >= FIRMWARE_CHECK_HOURS

(* ---------------------- _should_check_firmware ------------------------- *)
_should_check_firmware ==
  IF _last_firmware_check = Never
    THEN TRUE
    ELSE now - _last_firmware_check >= FIRMWARE_CHECK_HOURS

(* ------------------- history bundle of one step ------------------------ *)
(* The history records of task t as they stand when a client call made by  *)
(* t returns (the door action counts one more client call); a step amends  *)
(* the ones it concerns and hands the bundle to the continuation that      *)
(* finishes the step.                                                      *)
H(t) == [cyc |-> cyc[t], rc |-> rcrun[t], fw |-> fwrun[t], mark |-> NoMark,
         inv |-> IF t \in ActTasks THEN [inv[t] EXCEPT !.calls = @ + 1]
                                    ELSE NoAction,
         ev |-> [NoEvent EXCEPT !.task = t]]

(* History of a poll cycle c that is under way while a door action goes   *)
(* on: when wait_for_door_state of the action returns, the doors of the   *)
(* action that c has queried already are noted in c.old; when the action  *)
(* then returns true, those of them are noted in c.over                   *)
Marked(c, mark) ==
  CASE mark.at = "wait" /\ mark.door \in DOMAIN c.q ->
         [c EXCEPT !.old = @ \cup {mark.door}]
    [] mark.at = "return" /\ mark.door \in c.old ->
         [c EXCEPT !.over = @ \cup {mark.door}]
    [] OTHER -> c

SetHist(t, h) ==
  /\ cyc' = [u \in Tasks |-> IF u = t THEN h.cyc ELSE Marked(cyc[u], h.mark)]
  /\ rcrun' = [rcrun EXCEPT ![t] = h.rc]
  /\ fwrun' = [fwrun EXCEPT ![t] = h.fw]
  /\ inv' = IF t \in ActTasks THEN [inv EXCEPT ![t] = h.inv] ELSE inv
  /\ ev' = h.ev

(* task t suspends in the await named label *)
Goto(t, label, h) ==
  /\ pc' = [pc EXCEPT ![t] = label]
  /\ SetHist(t, h)
  /\ UNCHANGED <<door_idx, door_statuses, data, phase>>

(* a variant of ActionReturn in which a false return discards the         *)
(* published snapshot                                                      *)
ActionReturn_drops_snapshot(t, val, h) ==
  /\ pc' = [pc EXCEPT ![t] = "idle"]
  /\ SetHist(t, [h EXCEPT
                   !.ev.act = [h.inv EXCEPT !.result = IF val THEN "T" ELSE "F"],
                   !.inv = NoAction])
  /\ data' = IF val THEN data ELSE NoData
  /\ UNCHANGED <<door_idx, door_statuses, phase>>

(* lines 179, 181, 191, 200: async_execute_door_action returns val         *)
ActionReturn(t, val, h) ==
  /\ pc' = [pc EXCEPT ![t] = "idle"]
  /\ SetHist(t, [h EXCEPT
                   !.ev.act = [h.inv EXCEPT !.result = IF val THEN "T" ELSE "F"],
                   !.inv = NoAction])
  /\ UNCHANGED <<door_idx, door_statuses, data, phase>>

(* a variant of EndCycle in which the first failed poll cycle ends the     *)
(* polling: no further cycle is scheduled                                  *)
EndCycle_stop_on_failure(t, failed, result, h) ==
  LET c == [h.cyc EXCEPT !.out = IF failed THEN "failed" ELSE "published",
                         !.snap = IF failed THEN NoData ELSE <<result>>]
      h2 == [h EXCEPT !.ev.cyc = c, !.cyc = NoCycle]
  IN
  /\ data' = IF failed THEN data ELSE <<result>>
  /\ door_idx' = [door_idx EXCEPT ![t] = 0]
  /\ door_statuses' = [door_statuses EXCEPT ![t] = NoStatuses]
  /\ IF t \in ActTasks
       THEN /\ pc' = [pc EXCEPT ![t] = "idle"]
            /\ SetHist(t, [h2 EXCEPT !.ev.act = [h.inv EXCEPT !.result = "T"],
                                     !.inv = NoAction,
                                     !.mark = [at |-> "return",
                                               door |-> h.inv.door]])
            /\ phase' = phase
       ELSE /\ SetHist(t, h2)
            /\ pc' = [pc EXCEPT ![t] = IF failed THEN "done" ELSE "idle"]
            /\ phase' = IF phase = "setup"
                          THEN IF failed THEN "not_ready" ELSE "ready"
                          ELSE phase

(* a variant of EndCycle in which a door action returns False when the    *)
(* poll cycle it forced has failed                                         *)
EndCycle_action_fails_with_cycle(t, failed, result, h) ==
  LET c == [h.cyc EXCEPT !.out = IF failed THEN "failed" ELSE "published",
                         !.snap = IF failed THEN NoData ELSE <<result>>]
      h2 == [h EXCEPT !.ev.cyc = c, !.cyc = NoCycle]
  IN
  /\ data' = IF failed THEN data ELSE <<result>>
  /\ door_idx' = [door_idx EXCEPT ![t] = 0]
  /\ door_statuses' = [door_statuses EXCEPT ![t] = NoStatuses]
  /\ IF t \in ActTasks
       THEN /\ pc' = [pc EXCEPT ![t] = "idle"]
            /\ SetHist(t, [h2 EXCEPT !.ev.act = [h.inv EXCEPT !.result = IF failed THEN "F"
                                                                     ELSE "T"],
                                     !.inv = NoAction,
                                     !.mark = [at |-> "return",
                                               door |-> h.inv.door]])
            /\ phase' = phase
       ELSE /\ SetHist(t, h2)
            /\ IF phase = "setup"
                 THEN /\ phase' = IF failed THEN "not_ready" ELSE "ready"
                      /\ pc' = [pc EXCEPT ![t] = IF failed THEN "done" ELSE "idle"]
                 ELSE /\ phase' = phase
                      /\ pc' = [pc EXCEPT ![t] = "idle"]

(* --- DataUpdateCoordinator._async_refresh around _async_update_data ---- *)
(* failed: the cycle raised UpdateFailed; otherwise result is the          *)
(* SomwebData it returned.  The host framework assigns a returned value to *)
(* coordinator.data and leaves data alone on a failure.  The first refresh *)
(* of async_setup (line 69) turns a failure into ConfigEntryNotReady; the  *)
(* refresh forced by a door action (line 190) swallows a failure and the   *)
(* action goes on to line 191, return True.                                *)
EndCycle(t, failed, result, h) ==
  LET c == [h.cyc EXCEPT !.out = IF failed THEN "failed" ELSE "published",
                         !.snap = IF failed THEN NoData ELSE <<result>>]
      h2 == [h EXCEPT !.ev.cyc = c, !.cyc = NoCycle]
  IN
  /\ data' = IF failed THEN data ELSE <<result>>
  /\ door_idx' = [door_idx EXCEPT ![t] = 0]
  /\ door_statuses' = [door_statuses EXCEPT ![t] = NoStatuses]
  /\ IF t \in ActTasks
       THEN /\ pc' = [pc EXCEPT ![t] = "idle"]
            /\ SetHist(t, [h2 EXCEPT !.ev.act = [h.inv EXCEPT !.result = "T"],
                                     !.inv = NoAction,
                                     !.mark = [at |-> "return",
                                               door |-> h.inv.door]])
            /\ phase' = phase
       ELSE /\ SetHist(t, h2)
            /\ IF phase = "setup"
                 THEN /\ phase' = IF failed THEN "not_ready" ELSE "ready"
                      /\ pc' = [pc EXCEPT ![t] = IF failed THEN "done" ELSE "idle"]
                 ELSE /\ phase' = phase
                      /\ pc' = [pc EXCEPT ![t] = "idle"]

(* a variant of AfterDoors that does not look at client.is_admin *)
AfterDoors_no_admin_check(t, st, admin, h) ==
  IF _should_check_firmware
    THEN /\ pc' = [pc EXCEPT ![t] = "poll_fw_info"]
         /\ door_statuses' = [door_statuses EXCEPT ![t] = st]
         /\ SetHist(t, [h EXCEPT !.fw = [st |-> "running", site |-> "poll",
                                         pre |-> Held],
                                 !.ev.cyc.fwstep = "started"])
         /\ UNCHANGED <<door_idx, data, phase>>
    ELSE EndCycle(t, FALSE,
                  SomwebData(_device_info, st, _firmware_update_available),
                  [h EXCEPT !.cyc.fwstep = "skipped"])

(* lines 98-106: the firmware step after the door loop, then the return    *)
StartFirmware(site) == [st |-> "running", site |-> site, pre |-> Held]

AfterDoors(t, st, admin, h) ==
  IF admin /\ _should_check_firmware
    THEN /\ pc' = [pc EXCEPT ![t] = "poll_fw_info"]
         /\ door_statuses' = [door_statuses EXCEPT ![t] = st]
         /\ SetHist(t, [h EXCEPT !.fw = StartFirmware("poll"),
                                 !.ev.cyc.fwstep = "started"])
         /\ UNCHANGED <<door_idx, data, phase>>
    ELSE EndCycle(t, FALSE,
                  SomwebData(_device_info, st, _firmware_update_available),
                  [h EXCEPT !.cyc.fwstep = "skipped"])

(* lines 80-82: entering the door loop once the liveness step is passed    *)
AfterAlive(t, admin, h) ==
  IF Len(_doors) = 0
    THEN AfterDoors(t, NoStatuses, admin, h)
    ELSE /\ pc' = [pc EXCEPT ![t] = "poll_status"]
         /\ door_idx' = [door_idx EXCEPT ![t] = 1]
         /\ door_statuses' = [door_statuses EXCEPT ![t] = NoStatuses]
         /\ SetHist(t, h)
         /\ UNCHANGED <<data, phase>>

(* the start of _async_update_data: the task suspends in is_alive (l. 75)  *)
StartCycle(t, h) ==
  Goto(t, "poll_alive", [h EXCEPT !.cyc = [NoCycle EXCEPT !.out = "running"]])

(* a variant of async_setup that refreshes the firmware information        *)
(* whether or not the client is an administrator                           *)
async_setup_always_refresh ==
  /\ pc["main"] = "setup_get_doors"
  /\ \/ /\ _doors' = _doors
        /\ phase' = "raised"
        /\ pc' = [pc EXCEPT !["main"] = "done"]
        /\ ev' = [NoEvent EXCEPT !.task = "main"]
        /\ UNCHANGED <<door_idx, door_statuses, data, cyc, rcrun, fwrun, inv>>
     \/ \E r \in DoorLists :
          /\ _doors' = r
          /\ Goto("main", "setup_fw_info",
                  [H("main") EXCEPT !.fw = [st |-> "running", site |-> "setup",
                                            pre |-> Held]])
  /\ EntryFollows
  /\ UNCHANGED <<standbyVars, flowVars, envVars, fw_called, fwVars>>

(* --------------------------- async_setup ------------------------------- *)
(* lines 61-69: get_doors is synchronous; an exception it raises leaves    *)
(* async_setup as it is.                                                   *)
async_setup ==
  /\ pc["main"] = "setup_get_doors"
  /\ \/ /\ _doors' = _doors                    \* get_doors raises
        /\ phase' = "raised"
        /\ pc' = [pc EXCEPT !["main"] = "done"]
        /\ ev' = [NoEvent EXCEPT !.task = "main"]
        /\ UNCHANGED <<door_idx, door_statuses, data, cyc, rcrun, fwrun, inv>>
     \/ \E r \in DoorLists :
          /\ _doors' = r
          /\ IF is_admin
               THEN Goto("main", "setup_fw_info",
                         [H("main") EXCEPT !.fw = StartFirmware("setup")])
               ELSE StartCycle("main", H("main"))
  /\ EntryFollows
  /\ UNCHANGED <<standbyVars, flowVars, envVars, fw_called, fwVars>>

(* ------------------- _async_update_firmware_info ----------------------- *)
(* where the refresh returns to: line 69 (first refresh) from async_setup, *)
(* line 102 (build the snapshot) from a poll cycle                         *)
FirmwareReturn(t, ok, di, fw, h) ==
  LET h2 == [h EXCEPT !.ev.fw = [h.fw EXCEPT !.st = IF ok THEN "ok" ELSE "failed"],
                      !.fw = NoFirmware]
  IN
  IF fwrun[t].site = "setup"
    THEN StartCycle(t, h2)
    ELSE EndCycle(t, FALSE, SomwebData(di, door_statuses[t], fw),
                  [h2 EXCEPT !.cyc.fwstep = IF ok THEN "ok" ELSE "failed"])

(* a variant of firmware_get_device_info whose exception is not caught and *)
(* fails the poll cycle                                                    *)
firmware_get_device_info_unguarded(t) ==
  /\ pc[t] \in {"setup_fw_info", "poll_fw_info"}
  /\ fw_called' = TRUE
  /\ \E r \in DeviceInfoResults :
       IF r = Raise
         THEN /\ EndCycle(t, TRUE, NoSnapshot,
                     [H(t) EXCEPT !.ev.fw = [fwrun[t] EXCEPT !.st = "failed"],
                                  !.fw = NoFirmware,
                                  !.cyc.fwstep = "failed"])
              /\ UNCHANGED fwVars
         ELSE /\ _device_info' = r
              /\ Goto(t, IF pc[t] = "setup_fw_info" THEN "setup_fw_avail"
                                                    ELSE "poll_fw_avail", H(t))
              /\ UNCHANGED <<_firmware_update_available, _last_firmware_check,
                             fw_ok_at>>
  /\ EntryFollows
  /\ UNCHANGED <<standbyVars, flowVars, envVars, _doors>>

(* line 124 *)
firmware_get_device_info(t) ==
  /\ pc[t] \in {"setup_fw_info", "poll_fw_info"}
  /\ fw_called' = TRUE
  /\ \E r \in DeviceInfoResults :
       IF r = Raise
         THEN /\ FirmwareReturn(t, FALSE, _device_info,
                                _firmware_update_available, H(t))
              /\ UNCHANGED fwVars
         ELSE /\ _device_info' = r
              /\ Goto(t, IF pc[t] = "setup_fw_info" THEN "setup_fw_avail"
                                                    ELSE "poll_fw_avail", H(t))
              /\ UNCHANGED <<_firmware_update_available, _last_firmware_check,
                             fw_ok_at>>
  /\ EntryFollows
  /\ UNCHANGED <<standbyVars, flowVars, envVars, _doors>>

(* lines 125-126 *)
firmware_update_available(t) ==
  /\ pc[t] \in {"setup_fw_avail", "poll_fw_avail"}
  /\ fw_called' = TRUE
  /\ \E r \in UpdateAvailableResults :
       IF r = Raise
         THEN /\ FirmwareReturn(t, FALSE, _device_info,
                                _firmware_update_available, H(t))
              /\ UNCHANGED fwVars
         ELSE /\ _firmware_update_available' = (r = "true")
              /\ _last_firmware_check' = now
              /\ fw_ok_at' = now
              /\ _device_info' = _device_info
              /\ FirmwareReturn(t, TRUE, _device_info, r = "true", H(t))
  /\ EntryFollows
  /\ UNCHANGED <<standbyVars, flowVars, envVars, _doors>>

_async_update_firmware_info(t) ==
  \/ firmware_get_device_info(t)
  \/ firmware_update_available(t)

(* -------------------------- _async_reconnect --------------------------- *)
(* history: an is_alive or authenticate call of task t returned r; within  *)
(* a door action it belongs either to the action's own reconnection or to  *)
(* the refresh the action forced                                           *)
InAction(t, name, r, h) ==
  IF t \notin ActTasks
    THEN h
    ELSE IF pc[t] \in {"act_rc_alive", "act_rc_auth"}
           THEN [h EXCEPT !.inv.trace = Append(@, Call(name, 0, "-", r))]
           ELSE [h EXCEPT !.inv.refresh_raised = (@ \/ r = Raise)]

(* a variant of ReconnectReturn in which the poll cycle goes on to the door *)
(* loop although the reconnection failed                                   *)
ReconnectReturn_ignored(t, ret, admin, h) ==
  LET o == IF ret THEN "T" ELSE "F"
      h2 == [h EXCEPT !.ev.rc = [h.rc EXCEPT !.ret = o], !.rc = NoReconnect]
  IN
  IF pc[t] \in {"poll_rc_alive", "poll_rc_auth"}
    THEN AfterAlive(t, admin, [h2 EXCEPT !.cyc.rc = o])
    ELSE IF ret THEN Goto(t, "act_send2", h2)
                ELSE ActionReturn(t, FALSE, h2)

(* where the protocol returns to: line 77 of the poll cycle or line 178 of *)
(* the door action                                                         *)
ReconnectReturn(t, ret, admin, h) ==
  LET o == IF ret THEN "T" ELSE "F"
      h2 == [h EXCEPT !.ev.rc = [h.rc EXCEPT !.ret = o], !.rc = NoReconnect]
  IN
  IF pc[t] \in {"poll_rc_alive", "poll_rc_auth"}
    THEN IF ret THEN AfterAlive(t, admin, [h2 EXCEPT !.cyc.rc = o])
                ELSE EndCycle(t, TRUE, NoSnapshot, [h2 EXCEPT !.cyc.rc = o])
    ELSE IF ret THEN Goto(t, "act_send2", h2)
                ELSE ActionReturn(t, FALSE, h2)

(* a variant of reconnect_is_alive that authenticates whatever is_alive    *)
(* returned                                                                *)
reconnect_is_alive_ignored(t) ==
  /\ pc[t] \in {"poll_rc_alive", "act_rc_alive"}
  /\ \E r \in IsAliveResults :
       LET h == InAction(t, "is_alive", r, [H(t) EXCEPT !.rc.alive = Outcome(r)])
       IN
       IF r # Raise
         THEN Goto(t, IF pc[t] = "poll_rc_alive" THEN "poll_rc_auth"
                                                 ELSE "act_rc_auth", h)
         ELSE ReconnectReturn(t, FALSE, is_admin, h)
  /\ EntryFollows
  /\ UNCHANGED <<standbyVars, flowVars, envVars, fw_called, _doors, fwVars>>

(* line 137 *)
reconnect_is_alive(t) ==
  /\ pc[t] \in {"poll_rc_alive", "act_rc_alive"}
  /\ \E r \in IsAliveResults :
       LET h == InAction(t, "is_alive", r, [H(t) EXCEPT !.rc.alive = Outcome(r)])
       IN
       IF r = "true"
         THEN Goto(t, IF pc[t] = "poll_rc_alive" THEN "poll_rc_auth"
                                                 ELSE "act_rc_auth", h)
         ELSE ReconnectReturn(t, FALSE, is_admin, h)
  /\ EntryFollows
  /\ UNCHANGED <<standbyVars, flowVars, envVars, fw_called, _doors, fwVars>>

(* lines 144-154; a successful authenticate may change client.is_admin     *)
reconnect_authenticate(t) ==
  /\ pc[t] \in {"poll_rc_auth", "act_rc_auth"}
  /\ \E r \in AuthenticateResults :
       LET h == InAction(t, "authenticate", r,
                         [H(t) EXCEPT !.rc.auth = Outcome(r)])
       IN
       IF r = "true"
         THEN \E a \in BOOLEAN :
                /\ is_admin' = a
                /\ ReconnectReturn(t, TRUE, a, h)
         ELSE /\ is_admin' = is_admin
              /\ ReconnectReturn(t, FALSE, is_admin, h)
  /\ ever_admin' = (ever_admin \/ is_admin')
  /\ dev' = IF dev = "lost" THEN "up" ELSE dev
  /\ EntryFollows
  /\ UNCHANGED <<standbyVars, flowVars, now, fw_called, _doors, fwVars>>

_async_reconnect(t) ==
  \/ reconnect_is_alive(t)
  \/ reconnect_authenticate(t)

(* -------------------------- _async_update_data ------------------------- *)
(* a variant of poll_is_alive in which a false answer is not acted on: the *)
(* cycle goes on to the door loop                                          *)
poll_is_alive_ignored(t) ==
  /\ pc[t] = "poll_alive"
  /\ \E r \in IsAliveResults :
       LET h == InAction(t, "is_alive", r, [H(t) EXCEPT !.cyc.alive = Outcome(r)])
       IN
       IF r = Raise THEN EndCycle(t, TRUE, NoSnapshot, h)
                    ELSE AfterAlive(t, is_admin, h)
  /\ EntryFollows
  /\ UNCHANGED <<standbyVars, flowVars, envVars, fw_called, _doors, fwVars>>

(* lines 75-78 *)
poll_is_alive(t) ==
  /\ pc[t] = "poll_alive"
  /\ \E r \in IsAliveResults :
       LET h == InAction(t, "is_alive", r, [H(t) EXCEPT !.cyc.alive = Outcome(r)])
       IN
       CASE r = "true"  -> AfterAlive(t, is_admin, h)
         [] r = "false" -> Goto(t, "poll_rc_alive",
                                [h EXCEPT !.rc = [NoReconnect EXCEPT
                                                    !.ret = "running"]])
         [] OTHER       -> EndCycle(t, TRUE, NoSnapshot, h)
  /\ EntryFollows
  /\ UNCHANGED <<standbyVars, flowVars, envVars, fw_called, _doors, fwVars>>

(* a variant of poll_get_door_status without the try/except around the     *)
(* query: the exception fails the cycle                                    *)
poll_get_door_status_abort(t) ==
  /\ pc[t] = "poll_status"
  /\ \E r \in DoorStatusResults :
       LET door == _doors[door_idx[t]]
           st == (door :> r) @@ door_statuses[t]
           h == [H(t) EXCEPT !.cyc.q = (door :> r) @@ @]
       IN
       IF r = Raise
         THEN EndCycle(t, TRUE, NoSnapshot, h)
         ELSE IF door_idx[t] < Len(_doors)
                THEN /\ door_idx' = [door_idx EXCEPT ![t] = @ + 1]
                     /\ door_statuses' = [door_statuses EXCEPT ![t] = st]
                     /\ SetHist(t, h)
                     /\ UNCHANGED <<pc, data, phase>>
                ELSE AfterDoors(t, st, is_admin, h)
  /\ EntryFollows
  /\ UNCHANGED <<standbyVars, flowVars, envVars, fw_called, _doors, fwVars>>

(* a variant of poll_get_door_status in which a door whose query raised    *)
(* gets no entry in door_statuses                                          *)
poll_get_door_status_omit(t) ==
  /\ pc[t] = "poll_status"
  /\ \E r \in DoorStatusResults :
       LET door == _doors[door_idx[t]]
           st == IF r = Raise THEN door_statuses[t]
                              ELSE (door :> r) @@ door_statuses[t]
           h == [H(t) EXCEPT !.cyc.q = (door :> r) @@ @]
       IN
       IF door_idx[t] < Len(_doors)
         THEN /\ door_idx' = [door_idx EXCEPT ![t] = @ + 1]
              /\ door_statuses' = [door_statuses EXCEPT ![t] = st]
              /\ SetHist(t, h)
              /\ UNCHANGED <<pc, data, phase>>
         ELSE AfterDoors(t, st, is_admin, h)
  /\ EntryFollows
  /\ UNCHANGED <<standbyVars, flowVars, envVars, fw_called, _doors, fwVars>>

(* lines 82-96: one turn of the door loop *)
poll_get_door_status(t) ==
  /\ pc[t] = "poll_status"
  /\ \E r \in DoorStatusResults :
       LET door == _doors[door_idx[t]]
           status == IF r = Raise THEN "UNKNOWN" ELSE r
           st == (door :> status) @@ door_statuses[t]
           h == [H(t) EXCEPT !.cyc.q = (door :> r) @@ @]
       IN
       IF door_idx[t] < Len(_doors)
         THEN /\ door_idx' = [door_idx EXCEPT ![t] = @ + 1]
              /\ door_statuses' = [door_statuses EXCEPT ![t] = st]
              /\ SetHist(t, h)
              /\ UNCHANGED <<pc, data, phase>>
         ELSE AfterDoors(t, st, is_admin, h)
  /\ EntryFollows
  /\ UNCHANGED <<standbyVars, flowVars, envVars, fw_called, _doors, fwVars>>

_async_update_data(t) ==
  \/ poll_is_alive(t)
  \/ poll_get_door_status(t)

(* the update interval elapsed: the host framework starts a poll cycle     *)
(* (in the runs explored here not while a door action is under way)        *)
scheduled_refresh ==
  /\ pc["main"] = "idle"
  /\ \A a \in ActTasks : pc[a] = "idle"
  /\ phase = "ready"
  /\ StartCycle("main", H("main"))
  /\ EntryFollows
  /\ UNCHANGED <<standbyVars, flowVars, envVars, fw_called, _doors, fwVars>>

(* ---------------------- async_execute_door_action ---------------------- *)
(* variant: CLOSE is sent only for the target CLOSED *)
action_start_close_only_closed(t) ==
  /\ t = "act"
  /\ \A u \in Tasks : pc[u] = "idle"
  /\ phase = "ready"
  /\ \E door_id \in DoorIdInputs, target_state \in DoorStatusType :
       Goto(t, "act_send1",
            [H(t) EXCEPT !.inv = [NoAction EXCEPT
                 !.door = door_id,
                 !.target = target_state,
                 !.action = IF target_state = "CLOSED" THEN "CLOSE" ELSE "OPEN",
                 !.result = "running",
                 !.pre = CoordinatorState]])
  /\ EntryFollows
  /\ UNCHANGED <<standbyVars, flowVars, envVars, fw_called, _doors, fwVars>>

(* lines 164-176: the call, up to the first await (in the runs explored    *)
(* here not while a scheduled poll cycle is under way)                     *)
action_start(t) ==
  /\ t = "act"
  /\ \A u \in Tasks : pc[u] = "idle"
  /\ phase = "ready"
  /\ \E door_id \in DoorIdInputs, target_state \in DoorStatusType :
       Goto(t, "act_send1",
            [H(t) EXCEPT !.inv = [NoAction EXCEPT
                 !.door = door_id,
                 !.target = target_state,
                 !.action = IF target_state = "OPEN" THEN "OPEN" ELSE "CLOSE",
                 !.result = "running",
                 !.pre = CoordinatorState]])
  /\ EntryFollows
  /\ UNCHANGED <<standbyVars, flowVars, envVars, fw_called, _doors, fwVars>>

(* a variant of action_door_action that reconnects and retries for as long *)
(* as door_action returns false                                            *)
action_door_action_loop(t) ==
  /\ pc[t] \in {"act_send1", "act_send2"}
  /\ Len(inv[t].trace) < 12
  /\ \E r \in DoorActionResults :
       LET h == [H(t) EXCEPT !.inv.trace =
                   Append(@, Call("door_action", inv[t].door, inv[t].action, r))]
       IN
       CASE r = "true"  -> Goto(t, "act_wait", h)
         [] r = "false" -> Goto(t, "act_rc_alive",
                                [h EXCEPT !.rc = [NoReconnect EXCEPT
                                                    !.ret = "running"]])
         [] OTHER       -> ActionReturn(t, FALSE, h)
  /\ EntryFollows
  /\ UNCHANGED <<standbyVars, flowVars, envVars, fw_called, _doors, fwVars>>

(* variant: after the retry the action waits for the door whatever the    *)
(* retry returned                                                          *)
action_door_action_wait_anyway(t) ==
  /\ pc[t] \in {"act_send1", "act_send2"}
  /\ \E r \in DoorActionResults :
       LET h == [H(t) EXCEPT !.inv.trace =
                   Append(@, Call("door_action", inv[t].door, inv[t].action, r))]
       IN
       CASE r = "true"  -> Goto(t, "act_wait", h)
         [] r = "false" -> IF pc[t] = "act_send1"
                             THEN Goto(t, "act_rc_alive",
                                       [h EXCEPT !.rc = [NoReconnect EXCEPT
                                                           !.ret = "running"]])
                             ELSE Goto(t, "act_wait", h)
         [] OTHER       -> ActionReturn(t, FALSE, h)
  /\ EntryFollows
  /\ UNCHANGED <<standbyVars, flowVars, envVars, fw_called, _doors, fwVars>>

(* variant: an exception of the first door_action is taken for a false    *)
(* result                                                                  *)
action_door_action_raise_as_false(t) ==
  /\ pc[t] \in {"act_send1", "act_send2"}
  /\ \E r \in DoorActionResults :
       LET h == [H(t) EXCEPT !.inv.trace =
                   Append(@, Call("door_action", inv[t].door, inv[t].action, r))]
       IN
       CASE r = "true"  -> Goto(t, "act_wait", h)
         [] pc[t] = "act_send1" /\ r # "true" ->
              Goto(t, "act_rc_alive",
                   [h EXCEPT !.rc = [NoReconnect EXCEPT !.ret = "running"]])
         [] OTHER       -> ActionReturn(t, FALSE, h)
  /\ EntryFollows
  /\ UNCHANGED <<standbyVars, flowVars, envVars, fw_called, _doors, fwVars>>

(* lines 176-181: the first door_action and the retry *)
action_door_action(t) ==
  /\ pc[t] \in {"act_send1", "act_send2"}
  /\ \E r \in DoorActionResults :
       LET h == [H(t) EXCEPT !.inv.trace =
                   Append(@, Call("door_action", inv[t].door, inv[t].action, r))]
       IN
       CASE r = "true"  -> Goto(t, "act_wait", h)
         [] r = "false" -> IF pc[t] = "act_send1"
                             THEN Goto(t, "act_rc_alive",
                                       [h EXCEPT !.rc = [NoReconnect EXCEPT
                                                           !.ret = "running"]])
                             ELSE ActionReturn(t, FALSE, h)
         [] OTHER       -> ActionReturn(t, FALSE, h)
  /\ EntryFollows
  /\ UNCHANGED <<standbyVars, flowVars, envVars, fw_called, _doors, fwVars>>

(* a variant of action_wait_for_door_state outside the try block: the      *)
(* exception of wait_for_door_state reaches the caller                     *)
action_wait_for_door_state_unguarded(t) ==
  /\ pc[t] = "act_wait"
  /\ \E r \in WaitResults :
       LET h == [H(t) EXCEPT !.inv.trace =
                   Append(@, Call("wait_for_door_state", inv[t].door, inv[t].target, r))]
       IN
       IF r = "returned"
         THEN StartCycle(t, [h EXCEPT !.inv.trace =
                                Append(@, Call("refresh", 0, "-", "returned"))])
         ELSE /\ pc' = [pc EXCEPT ![t] = "idle"]
              /\ SetHist(t, [h EXCEPT !.ev.act = [h.inv EXCEPT !.result = "X"],
                                      !.inv = NoAction])
              /\ UNCHANGED <<door_idx, door_statuses, data, phase>>
  /\ EntryFollows
  /\ UNCHANGED <<standbyVars, flowVars, envVars, fw_called, _doors, fwVars>>

(* a variant of action_wait_for_door_state that returns True without       *)
(* forcing a refresh                                                       *)
action_wait_for_door_state_no_refresh(t) ==
  /\ pc[t] = "act_wait"
  /\ \E r \in WaitResults :
       LET h == [H(t) EXCEPT !.inv.trace =
                   Append(@, Call("wait_for_door_state", inv[t].door, inv[t].target, r))]
       IN
       ActionReturn(t, r = "returned", h)
  /\ EntryFollows
  /\ UNCHANGED <<standbyVars, flowVars, envVars, fw_called, _doors, fwVars>>

(* lines 184-190: wait_for_door_state, then the forced refresh (from     *)
(* which on the note of the state at the call is no longer kept)          *)
action_wait_for_door_state(t) ==
  /\ pc[t] = "act_wait"
  /\ \E r \in WaitResults :
       LET h == [H(t) EXCEPT !.inv.trace =
                   Append(@, Call("wait_for_door_state", inv[t].door, inv[t].target, r))]
       IN
       IF r = "returned"
         THEN StartCycle(t, [h EXCEPT
                !.inv.trace = Append(@, Call("refresh", 0, "-", "returned")),
                !.inv.pre = NoAction.pre,
                !.mark = [at |-> "wait", door |-> inv[t].door]])
         ELSE ActionReturn(t, FALSE, h)
  /\ EntryFollows
  /\ UNCHANGED <<standbyVars, flowVars, envVars, fw_called, _doors, fwVars>>

async_execute_door_action(t) ==
  \/ action_start(t)
  \/ action_door_action(t)
  \/ action_wait_for_door_state(t)

(* ----------------------------------------------------------------------- *)
Next ==
  \/ Tick
  \/ async_setup
  \/ scheduled_refresh
  \/ \E t \in Tasks :
       \/ _async_update_data(t)
       \/ _async_reconnect(t)
       \/ _async_update_firmware_info(t)
       \/ async_execute_door_action(t)

Spec == Init /\ [][Next]_vars

(* ------------- door actions invoked without restriction ---------------- *)
(* lines 160-176: async_execute_door_action takes no lock and looks at no  *)
(* flag: a call made while another call is suspended runs straight to its  *)
(* own door_action                                                         *)
action_invoke(t) ==
  /\ t \in ActTasks
  /\ pc[t] = "idle"
  /\ pc["main"] = "idle"
  /\ phase = "ready"
  /\ \E door_id \in DoorIdInputs, target_state \in DoorStatusType :
       Goto(t, "act_send1",
            [H(t) EXCEPT !.inv = [NoAction EXCEPT
                 !.door = door_id,
                 !.target = target_state,
                 !.action = IF target_state = "OPEN" THEN "OPEN" ELSE "CLOSE",
                 !.result = "running",
                 !.pre = CoordinatorState]])
  /\ EntryFollows
  /\ UNCHANGED <<standbyVars, flowVars, envVars, fw_called, _doors, fwVars>>

(* the runs between two scheduled poll cycles, with door actions invoked   *)
(* at any time, on a device that is up throughout: is_alive and            *)
(* door_action return true, so that no reconnection is ever started        *)
NextRace ==
  \/ async_setup
  \/ \E t \in Tasks :
       \/ _async_update_data(t)
       \/ _async_update_firmware_info(t)
  \/ \E t \in ActTasks :
       \/ action_invoke(t)
       \/ action_door_action(t)
       \/ action_wait_for_door_state(t)

SpecRace == InitDevice /\ [][NextRace]_vars

(* ------------ a door action and the scheduled poll interleaved -------- *)
(* the update interval elapsed: the timer of the host framework starts a   *)
(* poll cycle, whether or not a door action is under way                   *)
timer_refresh ==
  /\ pc["main"] = "idle"
  /\ phase = "ready"
  /\ StartCycle("main", H("main"))
  /\ EntryFollows
  /\ UNCHANGED <<standbyVars, flowVars, envVars, fw_called, _doors, fwVars>>

(* lines 164-176: a door action is requested, whether or not a scheduled   *)
(* poll cycle is under way                                                 *)
action_request(t) ==
  /\ t = "act"
  /\ pc[t] = "idle"
  /\ phase = "ready"
  /\ \E door_id \in DoorIdInputs, target_state \in DoorStatusType :
       Goto(t, "act_send1",
            [H(t) EXCEPT !.inv = [NoAction EXCEPT
                 !.door = door_id,
                 !.target = target_state,
                 !.action = IF target_state = "OPEN" THEN "OPEN" ELSE "CLOSE",
                 !.result = "running",
                 !.pre = CoordinatorState]])
  /\ EntryFollows
  /\ UNCHANGED <<standbyVars, flowVars, envVars, fw_called, _doors, fwVars>>

(* one door action at a time and the scheduled poll cycles, interleaved at *)
(* their awaits, on a device that is up throughout (no reconnection is     *)
(* ever started)                                                           *)
NextInterleave ==
  \/ Tick
  \/ async_setup
  \/ timer_refresh
  \/ action_request("act")
  \/ action_door_action("act")
  \/ action_wait_for_door_state("act")
  \/ \E t \in {"main", "act"} :
       \/ _async_update_data(t)
       \/ _async_update_firmware_info(t)

SpecInterleave == InitDevice /\ [][NextInterleave]_vars

(* ------------------- polling a device that comes and goes -------------- *)
NextDevice ==
  \/ session_lost
  \/ device_unreachable
  \/ device_reachable
  \/ async_setup
  \/ scheduled_refresh
  \/ \E t \in Tasks :
       \/ _async_update_data(t)
       \/ _async_reconnect(t)
       \/ _async_update_firmware_info(t)
       \/ async_execute_door_action(t)

(* a suspended coroutine is resumed when the call it awaits returns; the   *)
(* update interval keeps elapsing, and the timer starts a poll cycle at    *)
(* one of the moments at which these runs allow one                        *)
TaskStep(t) ==
  \/ _async_update_data(t)
  \/ _async_reconnect(t)
  \/ _async_update_firmware_info(t)
  \/ action_door_action(t)
  \/ action_wait_for_door_state(t)

SpecDevice ==
  /\ InitDevice
  /\ [][NextDevice]_vars
  /\ WF_vars(async_setup)
  /\ SF_vars(scheduled_refresh)
  /\ \A t \in Tasks : WF_vars(TaskStep(t))

(* ======================================================================= *)
(*                     Config flow (config_flow.py)                        *)
(* ======================================================================= *)
(* hostname.lower().rstrip(".").startswith("somweb"), on a hostname given  *)
(* as the sequence of its characters                                       *)

(* the characters that str.lower() changes, among those a string of the   *)
(* model can hold (U+0000 to U+00FF), in code point order, and what each   *)
(* becomes, position by position                                           *)
UpperCase == <<"A", "B", "C", "D", "E", "F", "G", "H", "I", "J", "K", "L",
               "M", "N", "O", "P", "Q", "R", "S", "T", "U", "V", "W", "X",
               "Y", "Z", "À", "Á", "Â", "Ã", "Ä", "Å", "Æ", "Ç", "È", "É",
               "Ê", "Ë", "Ì", "Í", "Î", "Ï", "Ð", "Ñ", "Ò", "Ó", "Ô", "Õ",
               "Ö", "Ø", "Ù", "Ú", "Û", "Ü", "Ý", "Þ">>
LowerCase == <<"a", "b", "c", "d", "e", "f", "g", "h", "i", "j", "k", "l",
               "m", "n", "o", "p", "q", "r", "s", "t", "u", "v", "w", "x",
               "y", "z", "à", "á", "â", "ã", "ä", "å", "æ", "ç", "è", "é",
               "ê", "ë", "ì", "í", "î", "ï", "ð", "ñ", "ò", "ó", "ô", "õ",
               "ö", "ø", "ù", "ú", "û", "ü", "ý", "þ">>

(* str.lower() on one character: a character of UpperCase becomes the one  *)
(* at its position in LowerCase, any other character is kept               *)
Lower(c) ==
  IF \E i \in 1..Len(UpperCase) : UpperCase[i] = c
    THEN LowerCase[CHOOSE i \in 1..Len(UpperCase) : UpperCase[i] = c]
    ELSE c

LowerAll(str) == [i \in 1..Len(str) |-> Lower(str[i])]

RECURSIVE RStripDots(_)
RStripDots(str) ==
  IF Len(str) > 0 /\ str[Len(str)] = "."
    THEN RStripDots(SubSeq(str, 1, Len(str) - 1))
    ELSE str

StartsWith(str, prefix) ==
  Len(str) >= Len(prefix) /\ SubSeq(str, 1, Len(prefix)) = prefix

(* variant: the hostname is compared as it was announced *)
IsSomwebHostname_as_announced(hostname) ==
  StartsWith(hostname, <<"s", "o", "m", "w", "e", "b">>)

IsSomwebHostname(hostname) ==
  StartsWith(RStripDots(LowerAll(hostname)), <<"s", "o", "m", "w", "e", "b">>)

Url(host) == "http://" \o host
Title(udi) == "SOMweb " \o udi

(* variant: only a field absent from the input counts, a field left empty *)
(* passes                                                                  *)
Empty_missing_only(v) == v = None

(* `x is None or len(x) == 0` *)
Empty(v) == v = None \/ v = ""

(* validate_input lines 86-115: the checks made before a client exists;    *)
(* "client" when a client is constructed, else the exception raised        *)
PreCheck(d) ==
  IF d.mode = MODE_LOCAL /\ Empty(d.url) THEN "InvalidSomwebUrl"
  ELSE IF d.mode # MODE_LOCAL /\ Empty(d.id) THEN "InvalidSomwebUdi"
  ELSE IF Empty(d.username) \/ Empty(d.password) THEN "InvalidAuth"
  ELSE IF d.mode = MODE_LOCAL /\ d.url # None THEN "client"
  ELSE IF d.mode = MODE_CLOUD /\ d.id # None THEN "client"
  ELSE "InvalidSomwebUrl"

(* the except clauses of async_step_user (282-292) and of                  *)
(* async_step_discovery_confirm (215-221)                                  *)
(* variant: the user step with the except clauses of the confirm step *)
UserStepErrors_base_only(exc) ==
  CASE exc = "InvalidAuth"      -> {<<"base", "invalid_auth">>}
    [] exc = "CannotConnect"    -> {<<"base", "cannot_connect">>}
    [] OTHER                    -> {<<"base", "unknown">>}

UserStepErrors(exc) ==
  CASE exc = "InvalidSomwebUdi" -> {<<"id", "invalid_udi">>}
    [] exc = "InvalidSomwebUrl" -> {<<"url", "invalid_url">>}
    [] exc = "CannotConnect"    -> {<<"base", "cannot_connect">>}
    [] exc = "InvalidAuth"      -> {<<"base", "invalid_auth">>}
    [] OTHER                    -> {<<"base", "unknown">>}

ConfirmStepErrors(exc) ==
  CASE exc = "InvalidAuth"      -> {<<"base", "invalid_auth">>}
    [] exc = "CannotConnect"    -> {<<"base", "cannot_connect">>}
    [] OTHER                    -> {<<"base", "unknown">>}

(* _abort_if_unique_id_configured: an entry of the domain has the id *)
Configured(uid) == \E i \in 1..Len(entries) : entries[i].unique_id = uid

(* variant: the identifier the user supplied is kept when there is one *)
StoredData_keep_input(step, d, udi) ==
  [d EXCEPT !.id = IF Empty(d.id) THEN udi ELSE @,
            !.url = IF d.mode = MODE_CLOUD THEN None ELSE @]

(* what the step stores in the entry: lines 298-303, and line 224 *)
StoredData(step, d, udi) ==
  IF step \in {"user", "reconfigure"}
    THEN [d EXCEPT !.id = udi, !.url = IF d.mode = MODE_CLOUD THEN None ELSE @]
    ELSE [d EXCEPT !.id = udi]

(* the ways a step ends *)
ShowForm(f, step, errors, e) ==
  /\ flow' = [flow EXCEPT ![f] = [NoFlow EXCEPT
                 !.pc = "form", !.step = step,
                 !.discovery_info = flow[f].discovery_info,
                 !.unique_id = flow[f].unique_id,
                 !.entry_id = flow[f].entry_id]]
  /\ fev' = [e EXCEPT !.result = "form", !.step = step, !.errors = errors]

Abort(f, reason, e) ==
  /\ flow' = [flow EXCEPT ![f] = NoFlow]
  /\ fev' = [e EXCEPT !.result = "abort", !.reason = reason]

CreateEntry(f, uid, title, d, e) ==
  /\ flow' = [flow EXCEPT ![f] = NoFlow]
  /\ entries' = Append(entries, [unique_id |-> uid, title |-> title, data |-> d])
  /\ fev' = [e EXCEPT !.result = "create_entry"]

(* async_update_reload_and_abort(config_entry, title=, data=) in a flow   *)
(* of source reconfigure: the entry gets the title and the data, keeps    *)
(* its unique id, and the flow aborts with reconfigure_successful         *)
UpdateReloadAndAbort(f, entry_id, title, d, e) ==
  /\ flow' = [flow EXCEPT ![f] = NoFlow]
  /\ entries' = [entries EXCEPT ![entry_id] = [@ EXCEPT !.title = title,
                                                        !.data = d]]
  /\ fev' = [e EXCEPT !.result = "abort", !.reason = "reconfigure_successful"]

(* variant: the reconfigure step stores the submitted input before it    *)
(* knows the outcome of the validation                                     *)
ValidateReturn_update_first(f, d, outcome, udi, client, calls) ==
  LET step == flow[f].step
      info == IF outcome = "ok" THEN [title |-> Title(udi), udi |-> udi]
                                ELSE [title |-> None, udi |-> None]
      e == [NoFlowEvent EXCEPT !.flow = f, !.step = step, !.validate = outcome,
                               !.input = d, !.udi = info.udi,
                               !.title = info.title, !.client = client,
                               !.calls = calls]
  IN
  IF outcome # "ok"
    THEN /\ ShowForm(f, step, IF step = "discovery_confirm"
                                THEN ConfirmStepErrors(outcome)
                                ELSE UserStepErrors(outcome), e)
         /\ entries' = IF step = "reconfigure"
                         THEN [entries EXCEPT ![flow[f].entry_id].data = d]
                         ELSE entries
    ELSE IF step = "reconfigure"
           THEN UpdateReloadAndAbort(f, flow[f].entry_id, info.title,
                                     StoredData(step, d, info.udi), e)
    ELSE IF Configured(udi)
           THEN /\ Abort(f, "already_configured", e)
                /\ entries' = entries
           ELSE CreateEntry(f, info.udi, info.title,
                            StoredData(step, d, info.udi), e)

(* variant: the entry is created without _abort_if_unique_id_configured *)
ValidateReturn_no_abort(f, d, outcome, udi, client, calls) ==
  LET step == flow[f].step
      info == IF outcome = "ok" THEN [title |-> Title(udi), udi |-> udi]
                                ELSE [title |-> None, udi |-> None]
      e == [NoFlowEvent EXCEPT !.flow = f, !.step = step, !.validate = outcome,
                               !.input = d, !.udi = info.udi,
                               !.title = info.title, !.client = client,
                               !.calls = calls]
  IN
  IF outcome # "ok"
    THEN /\ ShowForm(f, step, IF step = "discovery_confirm"
                                THEN ConfirmStepErrors(outcome)
                                ELSE UserStepErrors(outcome), e)
         /\ entries' = entries
    ELSE IF step = "reconfigure"
           THEN UpdateReloadAndAbort(f, flow[f].entry_id, info.title,
                                     StoredData(step, d, info.udi), e)
    ELSE CreateEntry(f, info.udi, info.title,
                            StoredData(step, d, info.udi), e)

(* lines 282-311 and 215-249: validate_input returned (outcome "ok", with  *)
(* the udi read from the client) or raised                                 *)
ValidateReturn(f, d, outcome, udi, client, calls) ==
  LET step == flow[f].step
      info == IF outcome = "ok" THEN [title |-> Title(udi), udi |-> udi]
                                ELSE [title |-> None, udi |-> None]
      e == [NoFlowEvent EXCEPT !.flow = f, !.step = step, !.validate = outcome,
                               !.input = d, !.udi = info.udi,
                               !.title = info.title, !.client = client,
                               !.calls = calls]
  IN
  IF outcome # "ok"
    THEN /\ ShowForm(f, step, IF step = "discovery_confirm"
                                THEN ConfirmStepErrors(outcome)
                                ELSE UserStepErrors(outcome), e)
         /\ entries' = entries
    ELSE IF step = "reconfigure"
           THEN UpdateReloadAndAbort(f, flow[f].entry_id, info.title,
                                     StoredData(step, d, info.udi), e)
    ELSE IF Configured(udi)
           THEN /\ Abort(f, "already_configured", e)
                /\ entries' = entries
           ELSE CreateEntry(f, info.udi, info.title,
                            StoredData(step, d, info.udi), e)

(* validate_input lines 86-118: up to the await of is_alive *)
validate_input(f, d) ==
  IF PreCheck(d) = "client"
    THEN /\ flow' = [flow EXCEPT ![f].pc = "v_alive", ![f].input = d,
                                 ![f].client = [constructed |-> 1, closed |-> 0]]
         /\ fev' = [NoFlowEvent EXCEPT !.flow = f]
         /\ entries' = entries
    ELSE ValidateReturn(f, d, PreCheck(d), None, NoClient, << >>)

(* line 273: async_step_user without input shows the empty form *)
user_init(f) ==
  /\ f = "user"
  /\ flow[f].pc = "none"
  /\ ShowForm(f, "user", {}, [NoFlowEvent EXCEPT !.flow = f])
  /\ entries' = entries
  /\ UNCHANGED <<hostVars, coordVars>>

(* lines 278-281: the user submits the form of the user step *)
user_submit(f) ==
  /\ flow[f].pc = "form"
  /\ flow[f].step = "user"
  /\ \E user_input \in UserInputs : validate_input(f, user_input)
  /\ UNCHANGED <<hostVars, coordVars>>

(* lines 208-214: the user submits the credentials of a discovered device  *)
confirm_submit(f) ==
  /\ flow[f].pc = "form"
  /\ flow[f].step = "discovery_confirm"
  /\ \E user_input \in Credentials :
       validate_input(f, [mode |-> flow[f].discovery_info.mode,
                          id |-> flow[f].discovery_info.id,
                          url |-> flow[f].discovery_info.url,
                          username |-> user_input.username,
                          password |-> user_input.password])
  /\ UNCHANGED <<hostVars, coordVars>>

(* variant: a device that is not alive ends validate_input at once *)
validate_is_alive_no_finally(f) ==
  /\ flow[f].pc = "v_alive"
  /\ \E r \in Bool \cup {Raise} :
       LET calls == Append(flow[f].calls, [call |-> "is_alive", out |-> Outcome(r)])
       IN
       IF r = "false"
         THEN ValidateReturn(f, flow[f].input, "CannotConnect", None,
                             flow[f].client, calls)
         ELSE /\ flow' = [flow EXCEPT
                            ![f].calls = calls,
                            ![f].pc = IF r = "true" THEN "v_auth" ELSE "v_close",
                            ![f].pending = IF r = "true" THEN "-" ELSE "Exception"]
              /\ fev' = [NoFlowEvent EXCEPT !.flow = f]
              /\ entries' = entries
  /\ UNCHANGED <<hostVars, coordVars>>

(* variant: the result of is_alive is not looked at *)
validate_is_alive_ignored(f) ==
  /\ flow[f].pc = "v_alive"
  /\ \E r \in Bool \cup {Raise} :
       flow' = [flow EXCEPT
                  ![f].calls = Append(@, [call |-> "is_alive", out |-> Outcome(r)]),
                  ![f].pc = IF r \in Bool THEN "v_auth" ELSE "v_close",
                  ![f].pending = IF r \in Bool THEN "-" ELSE "Exception"]
  /\ fev' = [NoFlowEvent EXCEPT !.flow = f]
  /\ UNCHANGED <<entries, hostVars, coordVars>>

(* lines 118-119 *)
validate_is_alive(f) ==
  /\ flow[f].pc = "v_alive"
  /\ \E r \in Bool \cup {Raise} :
       LET calls == Append(flow[f].calls, [call |-> "is_alive", out |-> Outcome(r)])
       IN
       flow' = [flow EXCEPT
                  ![f].calls = calls,
                  ![f].pc = IF r = "true" THEN "v_auth" ELSE "v_close",
                  ![f].pending = CASE r = "true" -> "-"
                                   [] r = "false" -> "CannotConnect"
                                   [] OTHER -> "Exception"]
  /\ fev' = [NoFlowEvent EXCEPT !.flow = f]
  /\ UNCHANGED <<entries, hostVars, coordVars>>

(* lines 121-127 *)
validate_authenticate(f) ==
  /\ flow[f].pc = "v_auth"
  /\ \E r \in Bool \cup {Raise}, udi \in Udis :
       LET calls == Append(flow[f].calls,
                           [call |-> "authenticate", out |-> Outcome(r)])
       IN
       flow' = [flow EXCEPT
                  ![f].calls = calls,
                  ![f].pc = "v_close",
                  ![f].udi = IF r = "true" THEN udi ELSE None,
                  ![f].pending = CASE r = "true" -> "ok"
                                   [] r = "false" -> "InvalidAuth"
                                   [] OTHER -> "Exception"]
  /\ fev' = [NoFlowEvent EXCEPT !.flow = f]
  /\ UNCHANGED <<entries, hostVars, coordVars>>

(* lines 128-129: the finally clause; the exception close() raises takes   *)
(* the place of what the try block returned or raised                      *)
validate_close(f) ==
  /\ flow[f].pc = "v_close"
  /\ \E r \in {"returned", Raise} :
       LET calls == Append(flow[f].calls, [call |-> "close", out |-> Outcome(r)])
           client == [flow[f].client EXCEPT !.closed = @ + 1]
           outcome == IF r = Raise THEN "Exception" ELSE flow[f].pending
       IN
       ValidateReturn(f, flow[f].input, outcome, flow[f].udi, client, calls)
  /\ UNCHANGED <<hostVars, coordVars>>

(* lines 146-180: a zeroconf announcement, up to the await of is_alive *)
zeroconf_discovered(f) ==
  /\ f = "zeroconf"
  /\ flow[f].pc = "none"
  /\ \E hostname \in Hostnames, host \in Hosts :
       IF ~IsSomwebHostname(hostname)
         THEN Abort(f, "not_somweb_device",
                    [NoFlowEvent EXCEPT !.flow = f, !.step = "zeroconf",
                                        !.hostname = hostname])
         ELSE /\ flow' = [flow EXCEPT ![f] = [NoFlow EXCEPT
                      !.pc = "z_alive", !.step = "zeroconf",
                      !.discovery_info = [url |-> Url(host), mode |-> MODE_LOCAL,
                                          id |-> None],
                      !.client = [constructed |-> 1, closed |-> 0]]]
              /\ fev' = [NoFlowEvent EXCEPT !.flow = f, !.hostname = hostname]
  /\ UNCHANGED <<entries, hostVars, coordVars>>

(* lines 180-185, and 196-198 when is_alive raises *)
zeroconf_is_alive(f) ==
  /\ flow[f].pc = "z_alive"
  /\ \E r \in Bool \cup {Raise} :
       flow' = [flow EXCEPT
                  ![f].calls = Append(@, [call |-> "is_alive", out |-> Outcome(r)]),
                  ![f].pc = IF r = "true" THEN "z_udi" ELSE "z_close",
                  ![f].pending = IF r = "true" THEN "-" ELSE "cannot_connect"]
  /\ fev' = [NoFlowEvent EXCEPT !.flow = f]
  /\ UNCHANGED <<entries, hostVars, coordVars>>

(* lines 187-198: get_udi; with a udi the flow takes it as unique id and   *)
(* aborts when an entry has it, after giving that entry the discovered url *)
zeroconf_get_udi(f) ==
  /\ flow[f].pc = "z_udi"
  /\ \E r \in Udis \cup {"", Raise} :
       LET calls == Append(flow[f].calls, [call |-> "get_udi", out |-> IF r = Raise THEN "X" ELSE "T"])
           url == flow[f].discovery_info.url
       IN
       CASE r = Raise ->
              /\ flow' = [flow EXCEPT ![f].calls = calls, ![f].pc = "z_close",
                                      ![f].pending = "cannot_connect"]
              /\ entries' = entries
         [] r = "" ->
              /\ flow' = [flow EXCEPT ![f].calls = calls, ![f].pc = "z_close",
                                      ![f].pending = "confirm"]
              /\ entries' = entries
         [] OTHER ->
              IF Configured(r)
                THEN /\ flow' = [flow EXCEPT ![f].calls = calls,
                                             ![f].pc = "z_close",
                                             ![f].unique_id = r,
                                             ![f].pending = "already_configured"]
                     /\ entries' = [i \in 1..Len(entries) |->
                                      IF entries[i].unique_id = r
                                        THEN [entries[i] EXCEPT !.data.url = url]
                                        ELSE entries[i]]
                ELSE /\ flow' = [flow EXCEPT ![f].calls = calls,
                                             ![f].pc = "z_close",
                                             ![f].unique_id = r,
                                             ![f].discovery_info.id = r,
                                             ![f].pending = "confirm"]
                     /\ entries' = entries
  /\ fev' = [NoFlowEvent EXCEPT !.flow = f]
  /\ UNCHANGED <<hostVars, coordVars>>

(* lines 199-202: the finally clause, then the abort decided in the try    *)
(* block or async_step_discovery_confirm without input (252-267)           *)
zeroconf_close(f) ==
  /\ flow[f].pc = "z_close"
  /\ \E r \in {"returned", Raise} :
       LET calls == Append(flow[f].calls, [call |-> "close", out |-> Outcome(r)])
           e == [NoFlowEvent EXCEPT
                   !.flow = f, !.step = "zeroconf", !.calls = calls,
                   !.udi = flow[f].unique_id,
                   !.client = [flow[f].client EXCEPT !.closed = @ + 1]]
       IN
       IF r = Raise
         THEN /\ flow' = [flow EXCEPT ![f] = NoFlow]
              /\ fev' = [e EXCEPT !.result = "raised"]
         ELSE IF flow[f].pending = "confirm"
                THEN ShowForm(f, "discovery_confirm", {}, e)
                ELSE Abort(f, flow[f].pending, e)
  /\ UNCHANGED <<entries, hostVars, coordVars>>

(* lines 317-337: a reconfigure flow is started for an entry; without an *)
(* entry_id, or with the id of no entry, it aborts, else it shows the form *)
reconfigure_init(f) ==
  /\ f = "reconfigure"
  /\ \A g \in Flows : flow[g].pc = "none"
  /\ \E entryid \in {NoEntryId} \cup EntryIds :
       LET e == [NoFlowEvent EXCEPT !.flow = f, !.step = "reconfigure"]
       IN
       IF entryid = NoEntryId
         THEN Abort(f, "missing_entry_id", e)
         ELSE IF entryid \notin 1..Len(entries)
           THEN Abort(f, "invalid_entry_id", e)
           ELSE /\ flow' = [flow EXCEPT ![f] = [NoFlow EXCEPT
                        !.pc = "form", !.step = "reconfigure",
                        !.entry_id = entryid]]
                /\ fev' = [e EXCEPT !.result = "form"]
  /\ UNCHANGED <<entries, hostVars, coordVars>>

(* lines 339-342: the user submits the form of the reconfigure step *)
reconfigure_submit(f) ==
  /\ flow[f].pc = "form"
  /\ flow[f].step = "reconfigure"
  /\ \E user_input \in UserInputs : validate_input(f, user_input)
  /\ UNCHANGED <<hostVars, coordVars>>

(* a user flow, a discovery flow started while no other flow is in       *)
(* progress                                                                *)
user_start(f) ==
  /\ \A g \in Flows : flow[g].pc = "none"
  /\ user_init(f)

zeroconf_start(f) ==
  /\ \A g \in Flows : flow[g].pc = "none"
  /\ zeroconf_discovered(f)

NextFlow ==
  \E f \in Flows :
    \/ user_init(f)
    \/ user_submit(f)
    \/ confirm_submit(f)
    \/ validate_is_alive(f)
    \/ validate_authenticate(f)
    \/ validate_close(f)
    \/ zeroconf_discovered(f)
    \/ zeroconf_is_alive(f)
    \/ zeroconf_get_udi(f)
    \/ zeroconf_close(f)

(* the flows of one client configuration; the coordinator exists only    *)
(* once an entry is set up, and stays as constructed                      *)
InitFlow == Init /\ ~is_admin

SpecFlow == InitFlow /\ [][NextFlow]_vars

(* user flows, discovery flows and reconfigure flows, one at a time *)
NextReconfigure ==
  \E f \in Flows :
    \/ user_start(f)
    \/ user_submit(f)
    \/ zeroconf_start(f)
    \/ zeroconf_is_alive(f)
    \/ zeroconf_get_udi(f)
    \/ zeroconf_close(f)
    \/ confirm_submit(f)
    \/ reconfigure_init(f)
    \/ reconfigure_submit(f)
    \/ validate_is_alive(f)
    \/ validate_authenticate(f)
    \/ validate_close(f)

SpecReconfigure == InitFlow /\ [][NextReconfigure]_vars

(* ======================================================================= *)
(*                 __init__.py: setting up a config entry                  *)
(* ======================================================================= *)
EntryCall(name, r) == [call |-> name, out |-> Outcome(r)]

(* async_setup_entry ends: ret is "T" or "F" for the value returned,       *)
(* "not_ready" for ConfigEntryNotReady, "raised" for any other exception   *)
SetupEntryReturn(s, ret) ==
  setup_entry' = [s EXCEPT !.pc = "done", !.result = ret]

(* binary_sensor.async_setup_entry: the sensors added for the entry *)
binary_sensor_async_setup_entry(admin, snapshot) ==
  IF admin
    THEN {"firmware_update"} \cup
         (IF snapshot.device_info # None THEN {"remote_access"} ELSE {})
    ELSE {}

(* lines 32-51: a run of async_setup_entry begins.  The client is created  *)
(* for the stored URL, or for the UDI when the entry holds no URL, and the *)
(* coroutine suspends in is_alive.  What is there when the run begins is   *)
(* noted in pre until the run has a coordinator of its own.                *)
SetupEntryBegin(somweb_url, reloads) ==
  [NoSetupEntry EXCEPT
     !.pc = "is_alive",
     !.reloads = reloads,
     !.url = somweb_url,
     !.client = IF somweb_url = None THEN MODE_CLOUD ELSE MODE_LOCAL,
     !.pre = [runtime_data |-> runtime_data, phase |-> phase,
              doors |-> _doors]]

setup_entry_create_client ==
  /\ setup_entry.pc = "-"
  /\ \E somweb_url \in UrlInputs \ {""} :   \* no flow stores an empty URL
       setup_entry' = SetupEntryBegin(somweb_url, 0)
  /\ ev' = NoEvent
  /\ UNCHANGED <<runtime_data, platforms, entities, migrateVars, coverVars,
                 flowVars, envVars, runVars>>

(* a variant of setup_entry_is_alive that goes on to authenticate whatever *)
(* is_alive returned                                                       *)
setup_entry_is_alive_ignored ==
  /\ setup_entry.pc = "is_alive"
  /\ \E r \in IsAliveResults :
       LET s == [setup_entry EXCEPT !.calls = Append(@, EntryCall("is_alive", r))]
       IN
       IF r = Raise THEN SetupEntryReturn(s, "raised")
                    ELSE setup_entry' = [s EXCEPT !.pc = "authenticate"]
  /\ ev' = NoEvent
  /\ UNCHANGED <<runtime_data, platforms, entities, migrateVars, coverVars,
                 flowVars, envVars, runVars>>

(* lines 51-53: is_alive; false raises ConfigEntryNotReady *)
setup_entry_is_alive ==
  /\ setup_entry.pc = "is_alive"
  /\ \E r \in IsAliveResults :
       LET s == [setup_entry EXCEPT !.calls = Append(@, EntryCall("is_alive", r))]
       IN
       CASE r = "true"  -> setup_entry' = [s EXCEPT !.pc = "authenticate"]
         [] r = "false" -> SetupEntryReturn(s, "not_ready")
         [] OTHER       -> SetupEntryReturn(s, "raised")
  /\ ev' = NoEvent
  /\ UNCHANGED <<runtime_data, platforms, entities, migrateVars, coverVars,
                 flowVars, envVars, runVars>>

(* line 64: SomwebDataUpdateCoordinator(hass, somweb_client), a new        *)
(* coordinator in the state its __init__ leaves; the coroutine suspends in *)
(* the first await of its async_setup                                      *)
NewCoordinator ==
  /\ fw_called' = FALSE
  /\ fw_ok_at' = Never
  /\ phase' = "setup"
  /\ _doors' = << >>
  /\ _device_info' = None
  /\ _firmware_update_available' = FALSE
  /\ _last_firmware_check' = Never
  /\ data' = NoData
  /\ pc' = [t \in Tasks |-> IF t = "main" THEN "setup_get_doors" ELSE "idle"]
  /\ door_idx' = [t \in Tasks |-> 0]
  /\ door_statuses' = [t \in Tasks |-> NoStatuses]
  /\ cyc' = [t \in Tasks |-> NoCycle]
  /\ rcrun' = [t \in Tasks |-> NoReconnect]
  /\ fwrun' = [t \in Tasks |-> NoFirmware]
  /\ inv' = [t \in ActTasks |-> NoAction]

(* lines 58-65: authenticate; without success the setup returns False,     *)
(* with success the coordinator is created and its async_setup awaited     *)
setup_entry_authenticate ==
  /\ setup_entry.pc = "authenticate"
  /\ \E r \in AuthenticateResults :
       LET s == [setup_entry EXCEPT
                   !.calls = Append(@, EntryCall("authenticate", r))]
       IN
       CASE r = "true"  -> /\ setup_entry' = [s EXCEPT !.pc = "coordinator_setup",
                                                       !.coordinator = TRUE,
                                                       !.pre = NoSetupEntry.pre]
                           /\ is_admin' \in BOOLEAN
                           /\ NewCoordinator
         [] r = "false" -> /\ SetupEntryReturn(s, "F")
                           /\ is_admin' = is_admin
                           /\ UNCHANGED runVars
         [] OTHER       -> /\ SetupEntryReturn(s, "raised")
                           /\ is_admin' = is_admin
                           /\ UNCHANGED runVars
  /\ ever_admin' = is_admin'
  /\ ev' = NoEvent
  /\ UNCHANGED <<runtime_data, platforms, entities, migrateVars, coverVars,
                 flowVars, now, dev>>

(* lines 71-73: async_forward_entry_setups returns, the platforms are set  *)
(* up (binary_sensor.async_setup_entry has added its sensors), and         *)
(* async_setup_entry returns True                                          *)
setup_entry_forward ==
  /\ setup_entry.pc = "forward"
  /\ SetupEntryReturn(setup_entry, "T")
  /\ platforms' = PLATFORMS
  /\ entities' = binary_sensor_async_setup_entry(is_admin, data[1])
  /\ ev' = NoEvent
  /\ UNCHANGED <<runtime_data, migrateVars, coverVars, flowVars, envVars,
                 runVars>>

async_setup_entry ==
  \/ setup_entry_create_client
  \/ setup_entry_is_alive
  \/ setup_entry_authenticate
  \/ setup_entry_forward

(* the entry is loaded: its platforms are set up *)
Loaded == setup_entry.pc = "done" /\ setup_entry.result = "T" /\ platforms # {}

(* lines 76-78: async_unload_entry; the platforms and their entities are   *)
(* gone when async_unload_platforms returns, runtime_data stays            *)
async_unload_entry ==
  /\ Loaded
  /\ platforms' = {}
  /\ entities' = {}
  /\ ev' = NoEvent
  /\ UNCHANGED <<setup_entry, runtime_data, migrateVars, coverVars, flowVars,
                 envVars, runVars>>

(* lines 81-84: async_reload_entry is called and suspends in               *)
(* async_unload_entry                                                      *)
reload_entry_unload ==
  /\ Loaded
  /\ setup_entry.reloads < MaxReloads
  /\ setup_entry' = [setup_entry EXCEPT !.pc = "reload_unload"]
  /\ ev' = NoEvent
  /\ UNCHANGED <<runtime_data, platforms, entities, migrateVars, coverVars,
                 flowVars, envVars, runVars>>

(* lines 84-85: the unload has ended and async_setup_entry is run again    *)
(* for the same entry, up to its is_alive                                  *)
reload_entry_setup ==
  /\ setup_entry.pc = "reload_unload"
  /\ platforms' = {}
  /\ entities' = {}
  /\ setup_entry' = SetupEntryBegin(setup_entry.url, setup_entry.reloads + 1)
  /\ ev' = NoEvent
  /\ UNCHANGED <<runtime_data, migrateVars, coverVars, flowVars, envVars,
                 runVars>>

async_reload_entry ==
  \/ reload_entry_unload
  \/ reload_entry_setup

(* the coordinator of the entry at work: its setup, then the scheduled     *)
(* poll cycles                                                             *)
coordinator_step ==
  \/ Tick
  \/ async_setup
  \/ scheduled_refresh
  \/ _async_update_data("main")
  \/ _async_reconnect("main")
  \/ _async_update_firmware_info("main")

(* a poll cycle that has begun goes on to its end: nothing in              *)
(* async_unload_entry, async_reload_entry or the coordinator stops it      *)
cycle_step ==
  \/ _async_update_data("main")
  \/ _async_reconnect("main")
  \/ _async_update_firmware_info("main")

(* the coordinator runs while async_setup_entry awaits its async_setup and *)
(* while the platforms of the entry are set up.  Once they are unloaded no *)
(* new cycle is scheduled, but a cycle in flight goes on, also during the  *)
(* next run of async_setup_entry, until that run creates its own           *)
(* coordinator: from then on the coordinator variables are those of the    *)
(* new coordinator and the steps of the previous one change none of them.  *)
NextEntry ==
  \/ async_setup_entry
  \/ async_unload_entry
  \/ async_reload_entry
  \/ /\ setup_entry.pc = "coordinator_setup"
     /\ phase = "setup"
     /\ coordinator_step
  \/ /\ Loaded \/ setup_entry.pc = "reload_unload"
     /\ coordinator_step
  \/ /\ ~Loaded
     /\ setup_entry.pc \in {"is_alive", "authenticate", "done"}
     /\ phase = "ready"
     /\ cycle_step

InitEntry == Init /\ ~is_admin

SpecEntry == InitEntry /\ [][NextEntry]_vars

(* ------------------------- async_migrate_entry ------------------------- *)
(* a variant of MigrateEntry that resets the URL whatever the minor        *)
(* version                                                                 *)
MigrateEntry_always_resets_url(e) ==
  IF e.version = 1
    THEN [version |-> 1, minor_version |-> 2,
          data |-> [k \in DOMAIN e.data \cup {CONF_URL} |->
                      IF k = CONF_URL THEN None ELSE e.data[k]]]
    ELSE e

(* lines 98-106: the entry as async_update_entry leaves it *)
MigrateEntry(e) ==
  IF e.version = 1
    THEN [version |-> 1, minor_version |-> 2,
          data |-> IF e.minor_version < 2
                     THEN [k \in DOMAIN e.data \cup {CONF_URL} |->
                             IF k = CONF_URL THEN None ELSE e.data[k]]
                     ELSE e.data]
    ELSE e

(* lines 88-114; the function returns True on every path *)
async_migrate_entry ==
  /\ migrated.runs < MaxMigrations
  /\ config_entry' = MigrateEntry(config_entry)
  /\ migrated' = [runs |-> migrated.runs + 1,
                  first |-> IF migrated.runs = 0 THEN config_entry
                                                 ELSE migrated.first,
                  before |-> config_entry,
                  returned |-> "true"]
  /\ UNCHANGED <<entryVars, coverVars, flowVars, coordVars>>

NextMigrate == async_migrate_entry

InitMigrate ==
  /\ dev = "any"
  /\ Constructed
  /\ ~is_admin
  /\ FlowInit
  /\ EntryIdle
  /\ CoverIdle
  /\ config_entry \in StoredEntries
  /\ migrated = NoMigration

SpecMigrate == InitMigrate /\ [][NextMigrate]_vars

(* ======================================================================= *)
(*                    cover.py: one SomwebDoor entity                      *)
(* ======================================================================= *)
CommandPcs == {"send1", "rc_alive", "rc_auth", "send2", "wait"}
UpdatePcs == {"upd_status1", "upd_rc_alive", "upd_rc_auth", "upd_status2"}

(* history of the step coroutine t of the entity takes *)
CH(t) == [cev EXCEPT !.done = NoCommand, !.upd = "-"]

(* history: coroutine t has made the client call name with the argument   *)
(* arg; the calls of a command coroutine are noted, in their order, in the *)
(* trace of its command                                                    *)
CoverCall(t, name, arg, h) ==
  IF t \in CmdTasks
    THEN [h EXCEPT !.cmd[t].trace =
            Append(@, [call |-> name, door |-> 0, arg |-> arg])]
    ELSE h

(* line 380, and for a command lines 271-272 and 335: async_update ends;   *)
(* a command coroutine then writes the state and returns                   *)
EndUpdate(t, c, outcome, h) ==
  /\ cover' = [c EXCEPT !._available = (c._state # "UNKNOWN")]
  /\ cpc' = [cpc EXCEPT ![t] = "idle"]
  /\ cev' = IF t \in CmdTasks
              THEN [h EXCEPT !.done = h.cmd[t], !.cmd[t] = NoCommand,
                             !.upd = outcome]
              ELSE [h EXCEPT !.upd = outcome]

(* lines 370-375: async_update on an entity with the fields c: skipped     *)
(* while one of the flags is set, else the coroutine suspends in           *)
(* get_door_status                                                         *)
StartUpdate(t, c, h) ==
  LET skip == c._is_opening \/ c._is_closing
      h2 == IF t \in CmdTasks
              THEN [h EXCEPT !.cmd[t].forced = IF skip THEN "skipped" ELSE "ran"]
              ELSE h
  IN
  IF skip
    THEN EndUpdate(t, c, "skipped", h2)
    ELSE /\ cover' = c
         /\ cpc' = [cpc EXCEPT ![t] = "upd_status1"]
         /\ cev' = h2

(* a variant of CoverFinally that forces the update first and clears the   *)
(* flags after it has been started                                         *)
CoverFinally_update_first(t, path, h) ==
  LET skip == cover._is_opening \/ cover._is_closing
      c == [cover EXCEPT !._is_opening = FALSE, !._is_closing = FALSE]
      h2 == [h EXCEPT !.cmd[t].path = path,
                      !.cmd[t].forced = IF skip THEN "skipped" ELSE "ran"]
  IN
  IF skip
    THEN EndUpdate(t, c, "skipped", h2)
    ELSE /\ cover' = c
         /\ cpc' = [cpc EXCEPT ![t] = "upd_status1"]
         /\ cev' = h2

(* lines 332-335: the finally clause of __async_set_door_position clears   *)
(* both flags, whichever command set them, then _force_update awaits       *)
(* async_update                                                            *)
CoverFinally(t, path, h) ==
  StartUpdate(t,
              [cover EXCEPT !._is_opening = FALSE, !._is_closing = FALSE],
              [h EXCEPT !.cmd[t].path = path])

(* lines 260-316: async_open_cover / async_close_cover set the flag of the *)
(* direction and clear the other, write the state and suspend in           *)
(* door_action; nothing keeps a command from beginning while another is    *)
(* suspended                                                               *)
cover_command(t) ==
  /\ t \in CmdTasks
  /\ cpc[t] = "idle"
  /\ t = "cmd2" => cpc["cmd1"] # "idle"
  /\ cev.begun < MaxCommands
  /\ \E position \in {"OPEN", "CLOSED"} :
       /\ cover' = [cover EXCEPT !._is_opening = (position = "OPEN"),
                                 !._is_closing = (position = "CLOSED")]
       /\ cev' = [CH(t) EXCEPT !.begun = @ + 1,
                               !.cmd[t] = [NoCommand EXCEPT
                                             !.position = position,
                                             !.path = "running"]]
  /\ cpc' = [cpc EXCEPT ![t] = "send1"]
  /\ UNCHANGED <<entryVars, migrateVars, flowVars, coordVars>>

(* lines 316-324: door_action, sent once more after a reconnection *)
cover_door_action(t) ==
  /\ t \in CmdTasks
  /\ cpc[t] \in {"send1", "send2"}
  /\ \E r \in DoorActionResults :
       LET h == CoverCall(t, "door_action",
                          IF cev.cmd[t].position = "OPEN" THEN "OPEN"
                                                          ELSE "CLOSE", CH(t))
       IN
       CASE r = "true" ->
              /\ cpc' = [cpc EXCEPT ![t] = "wait"]
              /\ cev' = h
              /\ cover' = cover
         [] r = "false" /\ cpc[t] = "send1" ->
              /\ cpc' = [cpc EXCEPT ![t] = "rc_alive"]
              /\ cev' = h
              /\ cover' = cover
         [] r = "false" /\ cpc[t] = "send2" -> CoverFinally(t, "rejected", h)
         [] OTHER -> CoverFinally(t, "exception", h)
  /\ UNCHANGED <<entryVars, migrateVars, flowVars, coordVars>>

(* line 321: wait_for_door_state *)
cover_wait_for_door_state(t) ==
  /\ t \in CmdTasks
  /\ cpc[t] = "wait"
  /\ \E r \in WaitResults :
       LET h == CoverCall(t, "wait_for_door_state", cev.cmd[t].position,
                          CH(t))
       IN
       CoverFinally(t, IF r = "returned" THEN "accepted" ELSE "exception", h)
  /\ UNCHANGED <<entryVars, migrateVars, flowVars, coordVars>>

(* where __async_re_connect returns to: line 318 of the command, line 376  *)
(* of async_update                                                         *)
CoverReconnectReturn(t, ret, h) ==
  IF cpc[t] \in CommandPcs
    THEN IF ret THEN /\ cpc' = [cpc EXCEPT ![t] = "send2"]
                     /\ cev' = h
                     /\ cover' = cover
                ELSE CoverFinally(t, "rejected", h)
    ELSE IF ret THEN /\ cpc' = [cpc EXCEPT ![t] = "upd_status2"]
                     /\ cev' = h
                     /\ cover' = cover
                ELSE EndUpdate(t, cover, "off_grid", h)

(* lines 337-343: is_alive of __async_re_connect *)
cover_re_connect_is_alive(t) ==
  /\ cpc[t] \in {"rc_alive", "upd_rc_alive"}
  /\ \E r \in IsAliveResults :
       LET h == CoverCall(t, "is_alive", "-", CH(t)) IN
       IF r = "true"
         THEN /\ cpc' = [cpc EXCEPT ![t] = IF cpc[t] = "rc_alive"
                                             THEN "rc_auth" ELSE "upd_rc_auth"]
              /\ cev' = h
              /\ cover' = cover
         ELSE CoverReconnectReturn(t, FALSE, h)
  /\ UNCHANGED <<entryVars, migrateVars, flowVars, coordVars>>

(* lines 345-366: authenticate of __async_re_connect; a successful         *)
(* authenticate may change client.is_admin                                 *)
cover_re_connect_authenticate(t) ==
  /\ cpc[t] \in {"rc_auth", "upd_rc_auth"}
  /\ \E r \in AuthenticateResults :
       LET h == CoverCall(t, "authenticate", "-", CH(t)) IN
       IF r = "true"
         THEN /\ is_admin' \in BOOLEAN
              /\ CoverReconnectReturn(t, TRUE, h)
         ELSE /\ is_admin' = is_admin
              /\ CoverReconnectReturn(t, FALSE, h)
  /\ ever_admin' = (ever_admin \/ is_admin')
  /\ ev' = NoEvent
  /\ UNCHANGED <<entryVars, migrateVars, flowVars, now, dev, runVars>>

(* lines 286-303: __async_refresh_state, the first one of async_update or  *)
(* the one after a reconnection                                            *)
cover_refresh_state(t) ==
  /\ cpc[t] \in {"upd_status1", "upd_status2"}
  /\ \E r \in DoorStatusResults :
       LET c == [cover EXCEPT !._state = IF r = Raise THEN "UNKNOWN" ELSE r]
           h == CoverCall(t, "get_door_status", "-", CH(t))
       IN
       IF c._state # "UNKNOWN"
         THEN EndUpdate(t, c, "refreshed", h)
         ELSE IF cpc[t] = "upd_status1"
                THEN /\ cover' = c
                     /\ cpc' = [cpc EXCEPT ![t] = "upd_rc_alive"]
                     /\ cev' = h
                ELSE EndUpdate(t, c, "off_grid", h)
  /\ UNCHANGED <<entryVars, migrateVars, flowVars, coordVars>>

(* the host framework polls the entity: async_update, lines 368-380 *)
cover_async_update ==
  /\ cpc["upd"] = "idle"
  /\ StartUpdate("upd", cover, CH("upd"))
  /\ UNCHANGED <<entryVars, migrateVars, flowVars, coordVars>>

NextCover ==
  \/ cover_async_update
  \/ \E t \in CoverTasks :
       \/ cover_command(t)
       \/ cover_door_action(t)
       \/ cover_wait_for_door_state(t)
       \/ cover_re_connect_is_alive(t)
       \/ cover_re_connect_authenticate(t)
       \/ cover_refresh_state(t)

InitCover == Init /\ ~is_admin

SpecCover == InitCover /\ [][NextCover]_vars

(* ======================================================================= *)
(*                              Properties                                 *)
(* ======================================================================= *)
PollPcs == {"poll_alive", "poll_rc_alive", "poll_rc_auth", "poll_status",
            "poll_fw_info", "poll_fw_avail"}
FirmwarePcs == {"setup_fw_info", "setup_fw_avail", "poll_fw_info",
                "poll_fw_avail"}

(* the status a snapshot must carry for a door whose query ended with r    *)
Recorded(r) == IF r = Raise THEN "UNKNOWN" ELSE r

(* the snapshot s carries, for every door of the list, what the door's own *)
(* query of the cycle with query history q gave                            *)
CarriesQueries(s, q) ==
  /\ DOMAIN q = DoorIds
  /\ DOMAIN s.doors = DoorIds
  /\ \A k \in DoorIds : s.doors[k] = Recorded(q[k])

(* C1: per-door isolation.  A poll cycle that got past the liveness step   *)
(* (is_alive returned true, or the reconnection succeeded) does not fail,  *)
(* and the snapshot it returns has, for every door of the list, UNKNOWN if *)
(* the door's query raised and otherwise the value that query returned;    *)
(* every door was queried.                                                 *)
C1_PerDoorIsolation ==
  LET c == ev.cyc IN
  /\ (c.out # "-" /\ (c.alive = "T" \/ c.rc = "T")) => c.out = "published"
  /\ c.out = "published" => CarriesQueries(c.snap[1], c.q)

C1_Witness ==
  LET c == ev.cyc IN
  /\ c.out = "published"
  /\ \E k, j \in DoorIds :
       /\ k # j
       /\ c.q[k] = Raise /\ c.snap[1].doors[k] = "UNKNOWN"
       /\ c.q[j] = "OPEN" /\ c.snap[1].doors[j] = "OPEN"

(* C2: snapshot atomicity.  A step changes coordinator.data only by        *)
(* publishing the snapshot a poll cycle returned, and that snapshot is     *)
(* complete: a status for every known door, and the held device_info and   *)
(* firmware flag.  A cycle that fails publishes nothing.  When is_alive    *)
(* returned false and the reconnection failed, the cycle fails, has        *)
(* queried no door, and leaves the published snapshot as it was.           *)
C2_SnapshotAtomicity ==
  [][LET c == ev'.cyc IN
     /\ c.out = "published" =>
          /\ data' = c.snap
          /\ DOMAIN data'[1].doors = DoorIds'
          /\ data'[1].device_info = _device_info'
          /\ data'[1].firmware_update_available = _firmware_update_available'
     /\ c.out # "published" => data' = data
     /\ c.out = "failed" => (c.alive = "X" \/ (c.alive = "F" /\ c.rc = "F"))
     /\ (c.alive = "F" /\ c.rc = "F") =>
          (c.out = "failed" /\ c.q = NoStatuses /\ data' = data)]_vars

C2_Witness ==
  /\ ev.cyc.out = "failed"
  /\ ev.cyc.alive = "F" /\ ev.cyc.rc = "F"
  /\ data # NoData
  /\ Len(_doors) > 0

(* the reconnection protocol ran in the door action with trace tr, and how *)
(* it ended                                                                *)
Reconnected(tr) == Count(tr, "is_alive") > 0
ReconnectedOk(tr) ==
  \E i \in 1..Len(tr) : tr[i].call = "authenticate" /\ tr[i].out = "T"

(* the client calls one door action can make: two door_action, is_alive    *)
(* and authenticate of its reconnection, wait_for_door_state, and in the   *)
(* forced poll cycle is_alive, the two calls of a reconnection, one status *)
(* query per door and the two firmware calls                               *)
MaxActionCalls == 10 + Len(_doors)

ActionStep == \/ _async_update_data("act")
              \/ _async_reconnect("act")
              \/ _async_update_firmware_info("act")
              \/ async_execute_door_action("act")

RetryOnce(a) ==
  LET tr == a.trace IN
  /\ Count(tr, "door_action") <= 2
  /\ Count(tr, "is_alive") <= 1
  /\ Count(tr, "authenticate") <= 1
  /\ a.calls <= MaxActionCalls
  /\ Count(tr, "door_action") = 2 =>
       (tr[1].out = "F" /\ ReconnectedOk(tr))
  /\ (a.result \in {"T", "F"} /\ tr[1].out = "F" /\ ReconnectedOk(tr)) =>
       /\ Count(tr, "door_action") = 2
       /\ tr[4].call = "door_action"
       /\ tr[4].out = "F" => (a.result = "F" /\ Len(tr) = 4)
  /\ (a.result \in {"T", "F"} /\ Reconnected(tr) /\ ~ReconnectedOk(tr)) =>
       (Count(tr, "door_action") = 1 /\ a.result = "F")

(* C3: action retry-once.  One door action sends door_action at most twice *)
(* and runs the reconnection protocol at most once; a second door_action   *)
(* is sent exactly when the first returned false and the reconnection      *)
(* succeeded, and when it returns false too the action returns false with  *)
(* no third attempt.  The action makes a bounded number of client calls    *)
(* and, until it returns, always has a next step to take.                  *)
C3_RetryOnce ==
  /\ RetryOnce(inv["act"])
  /\ RetryOnce(ev.act)
  /\ pc["act"] # "idle" => ENABLED ActionStep

C3_Witness ==
  LET a == ev.act IN
  /\ a.result = "F"
  /\ Len(a.trace) = 4
  /\ a.trace[1].out = "F"
  /\ a.trace[3].out = "T"
  /\ a.trace[4].call = "door_action" /\ a.trace[4].out = "F"

(* C4 as claimed: the door action ends by returning a boolean and returns  *)
(* false whenever a door_action, is_alive, authenticate or                 *)
(* wait_for_door_state call made during it raised.                         *)
C4_Original ==
  LET a == ev.act IN
  a.result # "-" =>
    /\ a.result \in {"T", "F"}
    /\ (Raised(a.trace) \/ a.refresh_raised) => a.result = "F"

(* C4 as amended: the door action ends by returning a boolean; it returns  *)
(* false whenever door_action, wait_for_door_state, or is_alive or         *)
(* authenticate of its own reconnection raised.  An is_alive or            *)
(* authenticate call that raises inside the refresh the action forced is   *)
(* absorbed by that refresh: the action still returns true.                *)
C4_NeverRaises ==
  LET a == ev.act IN
  a.result # "-" =>
    /\ a.result \in {"T", "F"}
    /\ Raised(a.trace) => a.result = "F"
    /\ a.refresh_raised => a.result = "T"

C4_Witness ==
  LET a == ev.act IN
  /\ a.result = "F"
  /\ Raised(a.trace)
  /\ a.trace[Len(a.trace)].call = "wait_for_door_state"

(* the trace ends with wait_for_door_state returning and then the refresh  *)
RefreshAfterWait(tr) ==
  /\ Count(tr, "refresh") = 1
  /\ Len(tr) >= 2
  /\ tr[Len(tr)].call = "refresh"
  /\ tr[Len(tr) - 1].call = "wait_for_door_state"
  /\ tr[Len(tr) - 1].out = "T"

(* C5: forced refresh after an action.  A door action that returns true    *)
(* has run exactly one poll cycle, started after wait_for_door_state       *)
(* returned and finished before the action returns; a door action that     *)
(* returns false has run none.                                             *)
C5_ForcedRefresh ==
  /\ ev.act.result = "T" => (RefreshAfterWait(ev.act.trace) /\ ev.cyc.out # "-")
  /\ ev.act.result = "F" => (Count(ev.act.trace, "refresh") = 0 /\ ev.cyc.out = "-")
  /\ pc["act"] \in PollPcs => RefreshAfterWait(inv["act"].trace)
  /\ pc["act"] \notin PollPcs => Count(inv["act"].trace, "refresh") = 0

C5_Witness ==
  /\ ev.act.result = "T"
  /\ ev.cyc.out = "published"
  /\ Count(ev.act.trace, "door_action") = 2

(* C6: reconnect gating.  Within one run of the reconnection protocol      *)
(* authenticate is called only after is_alive returned true; the run       *)
(* returns true exactly when is_alive returned true and authenticate       *)
(* reported success, and returns false when either call raised.            *)
C6_ReconnectGating ==
  /\ \A t \in Tasks :
       pc[t] \in {"poll_rc_auth", "act_rc_auth"} => rcrun[t].alive = "T"
  /\ LET r == ev.rc IN
     r.ret # "-" =>
       /\ r.ret \in {"T", "F"}
       /\ r.auth # "-" => r.alive = "T"
       /\ r.ret = "T" <=> (r.alive = "T" /\ r.auth = "T")

C6_Witness ==
  /\ ev.rc.ret = "F"
  /\ ev.rc.alive = "F"
  /\ ev.rc.auth = "-"

(* C7: firmware throttle.  With T the time the last successful refresh     *)
(* completed, a poll cycle (scheduled or forced) starts a refresh only     *)
(* when no refresh has succeeded yet or the clock is at or past            *)
(* T + FIRMWARE_CHECK_HOURS; and an administrator's poll cycle that        *)
(* reaches the firmware step without starting one does so before           *)
(* T + FIRMWARE_CHECK_HOURS.                                               *)
C7_FirmwareThrottle ==
  LET c == ev.cyc IN
  /\ c.fwstep = "started" =>
       (fw_ok_at = Never \/ now >= fw_ok_at + FIRMWARE_CHECK_HOURS)
  /\ (c.fwstep = "skipped" /\ is_admin) =>
       (fw_ok_at # Never /\ now < fw_ok_at + FIRMWARE_CHECK_HOURS)

C7_Witness ==
  /\ ev.cyc.fwstep = "started"
  /\ fw_ok_at # Never
  /\ now >= fw_ok_at + FIRMWARE_CHECK_HOURS

(* C8: a failure of the firmware/device-info refresh inside a poll cycle   *)
(* does not fail the cycle: the cycle publishes a snapshot that carries    *)
(* the door statuses collected in it.                                      *)
C8_FirmwareFailureTolerated ==
  (ev.fw.st = "failed" /\ ev.fw.site = "poll") =>
    /\ ev.cyc.out = "published"
    /\ data = ev.cyc.snap
    /\ CarriesQueries(data[1], ev.cyc.q)

C8_Witness ==
  /\ ev.fw.st = "failed"
  /\ ev.fw.site = "poll"
  /\ ev.cyc.out = "published"
  /\ \E k \in DoorIds : ev.cyc.q[k] = "CLOSED"

(* C9 as claimed: after a refresh in which get_device_info or              *)
(* update_available failed, the held device_info, the held firmware flag   *)
(* and the last-check timestamp are what they were before the refresh.     *)
C9_Original ==
  ev.fw.st = "failed" => Held = ev.fw.pre

(* C10: while client.is_admin has never been true, no get_device_info or   *)
(* update_available call is made or under way, and every published         *)
(* snapshot has device_info None and firmware_update_available false,      *)
(* whatever time has elapsed.                                              *)
C10_NonAdmin ==
  ~ever_admin =>
    /\ ~fw_called
    /\ \A t \in Tasks : pc[t] \notin FirmwarePcs
    /\ data # NoData =>
         /\ data[1].device_info = None
         /\ data[1].firmware_update_available = FALSE

C10_Witness ==
  /\ ~ever_admin
  /\ now >= FIRMWARE_CHECK_HOURS
  /\ ev.cyc.out = "published"
  /\ ev.task = "act"

(* C11: the door set is fixed at setup.  get_doors is called by            *)
(* async_setup only, once: the door list changes in no step but the one    *)
(* that leaves the get_doors call of async_setup, no step returns to that  *)
(* call, and the doors of every published snapshot are exactly the doors   *)
(* of the list.                                                            *)
C11_DoorSetFixed ==
  [][/\ _doors' # _doors =>
          (pc["main"] = "setup_get_doors" /\ ev'.task = "main")
     /\ pc["main"] # "setup_get_doors" => pc'["main"] # "setup_get_doors"
     /\ data' # NoData => DOMAIN data'[1].doors = DoorIds'
     /\ (data # NoData /\ data' # NoData) =>
          DOMAIN data'[1].doors = DOMAIN data[1].doors]_vars

C11_Witness ==
  /\ data # NoData
  /\ Len(_doors) = 2
  /\ ev.task = "act"
  /\ ev.cyc.out = "published"
  /\ \E k \in DoorIds : ev.cyc.q[k] = Raise

(* C12 as claimed: no stale door status.  In the published snapshot a door *)
(* is UNKNOWN when the latest query for it failed, and every door is       *)
(* UNKNOWN once the latest poll cycle found the device unreachable: no     *)
(* OPEN or CLOSED of an earlier cycle is still published then.             *)
C12_Original ==
  data # NoData =>
    /\ ev.cyc.out = "published" =>
         \A k \in DoorIds : ev.cyc.q[k] = Raise => data[1].doors[k] = "UNKNOWN"
    /\ ev.cyc.out = "failed" =>
         \A k \in DoorIds : data[1].doors[k] = "UNKNOWN"

(* a door action of task t is under way: its door_action has been sent and *)
(* the call of async_execute_door_action has not returned                  *)
UnderWay(t) == pc[t] # "idle"

(* C13 as claimed: two door actions never race on the same door.  While an *)
(* invocation for a door has sent its action and has not returned, no      *)
(* other invocation for that door has sent door_action.                    *)
C13_Original ==
  \A t, u \in ActTasks :
    (t # u /\ UnderWay(t) /\ UnderWay(u)) => inv[t].door # inv[u].door

(* every door of the published snapshot has a real status *)
RealStatuses ==
  /\ data # NoData
  /\ \A k \in DOMAIN data[1].doors : data[1].doors[k] \in {"OPEN", "CLOSED"}

(* C14 as claimed: recovery from session loss.  Once the session is lost   *)
(* on a reachable device with at least one door, then, unless the device   *)
(* becomes unreachable, eventually the session is valid again and a        *)
(* published snapshot reports real statuses for the doors.                 *)
C14_Original ==
  (dev = "lost" /\ phase = "ready" /\ Len(_doors) > 0)
    ~> (dev = "down" \/ (dev = "up" /\ ev.cyc.out = "published" /\ RealStatuses))

(* C15: recovery from connectivity loss.  A scheduled poll cycle that      *)
(* fails leaves the coordinator ready for the next scheduled cycle; and if *)
(* from some time on the device stays reachable, scheduled poll cycles     *)
(* publish a snapshot again and again.                                     *)
C15_ConnectivityRecovery ==
  /\ []((ev.cyc.out = "failed" /\ ev.task = "main" /\ phase = "ready") =>
         ENABLED scheduled_refresh)
  /\ <>[](dev \in Reachable /\ phase = "ready") =>
       []<>(ev.cyc.out = "published" /\ ev.task = "main")

C15_Witness ==
  /\ dev = "down"
  /\ phase = "ready"
  /\ ev.task = "main"
  /\ ev.cyc.out = "failed"
  /\ ev.cyc.alive = "F" /\ ev.cyc.rc = "F"
  /\ data # NoData

SetupFirmwarePcs == {"setup_fw_info", "setup_fw_avail"}

(* C16: the order of coordinator setup.  Nothing is refreshed, polled or   *)
(* published before get_doors; after it setup runs the firmware refresh    *)
(* exactly when the client is an administrator, and starts the first poll  *)
(* cycle only when that refresh has completed (or at once for a            *)
(* non-administrator); nothing is published before the first cycle ends;   *)
(* a first cycle that publishes makes the coordinator ready with that      *)
(* snapshot, a first cycle that fails ends setup as not ready with no      *)
(* snapshot, and after a failed setup nothing runs any more.               *)
C16_SetupOrder ==
  [][/\ (pc["main"] = "setup_get_doors" /\ pc'["main"] # pc["main"]) =>
          /\ data = NoData /\ ~fw_called /\ cyc["main"] = NoCycle
          /\ pc'["main"] \in
               (IF is_admin THEN {"setup_fw_info"} ELSE {"poll_alive"}) \cup {"done"}
          /\ pc'["main"] = "done" <=> phase' = "raised"
     /\ pc["main"] \in SetupFirmwarePcs =>
          /\ phase = "setup" /\ is_admin /\ data = NoData
          /\ cyc["main"] = NoCycle
          /\ pc'["main"] \in SetupFirmwarePcs \cup {"poll_alive"}
          /\ pc'["main"] = "poll_alive" =>
               (ev'.fw.site = "setup" /\ ev'.fw.st \in {"ok", "failed"})
     /\ (phase = "setup" /\ pc["main"] \in PollPcs) => data = NoData
     /\ (phase = "setup" /\ ev'.cyc.out = "published") =>
          (phase' = "ready" /\ data' = ev'.cyc.snap /\ pc'["main"] = "idle")
     /\ (phase = "setup" /\ ev'.cyc.out = "failed") =>
          (phase' = "not_ready" /\ data' = NoData /\ pc'["main"] = "done")
     /\ (phase' = "ready" /\ phase # "ready") =>
          (phase = "setup" /\ ev'.cyc.out = "published")
     /\ phase \in {"not_ready", "raised"} =>
          (data' = NoData /\ pc' = pc /\ phase' = phase)]_vars

C16_Witness ==
  /\ phase = "not_ready"
  /\ data = NoData
  /\ ev.cyc.out = "failed"
  /\ fw_called
  /\ Len(_doors) > 0


(* ------------------------------ C17 ------------------------------------ *)
ClientPcs == {"v_alive", "v_auth", "v_close", "z_alive", "z_udi", "z_close"}

CloseCalls(calls) == Cardinality({i \in 1..Len(calls) : calls[i].call = "close"})

(* C17: every client the config flow constructs is closed exactly once    *)
(* before the call that constructed it ends. While a validate_input call  *)
(* or a zeroconf probe is under way its client is open and not yet        *)
(* closed; when the call has returned, aborted or raised, close() was     *)
(* called once, as the last call on the client, whatever the outcome;     *)
(* and outside such a call no flow holds a client.                        *)
C17_ClientClosedOnce ==
  /\ \A f \in Flows :
       IF flow[f].pc \in ClientPcs
         THEN /\ flow[f].client = [constructed |-> 1, closed |-> 0]
              /\ CloseCalls(flow[f].calls) = 0
         ELSE flow[f].client = NoClient
  /\ fev.result # "-" =>
       /\ fev.client.closed = fev.client.constructed
       /\ CloseCalls(fev.calls) = fev.client.constructed
       /\ Len(fev.calls) > 0 =>
            /\ fev.client.constructed = 1
            /\ fev.calls[Len(fev.calls)].call = "close"

(* a validation that found the device not alive closed its client once   *)
C17_Witness ==
  /\ fev.result = "form"
  /\ fev.step = "user"
  /\ fev.validate = "CannotConnect"
  /\ fev.client = [constructed |-> 1, closed |-> 1]
  /\ Len(fev.calls) = 2

(* ------------------------------ C18 ------------------------------------ *)
FlowCall(name, out) == [call |-> name, out |-> out]

(* validate_input has ended, with the client calls of fev.calls *)
Validated == fev.result # "-" /\ fev.validate # "-"

(* C18: validate_input checks liveness before authentication. In every    *)
(* call, under way or ended, authenticate is the second client call and   *)
(* follows an is_alive that returned true. When the call has ended and    *)
(* close() returned: is_alive false gave CannotConnect, is_alive true     *)
(* with authenticate unsuccessful gave InvalidAuth, and the call returned *)
(* exactly when both succeeded, with the title "SOMweb <udi>" and the udi *)
(* read from the client. (An exception raised by close() in the finally   *)
(* clause takes the place of any of these outcomes.)                      *)
C18_LivenessBeforeAuth ==
  /\ \A f \in Flows : \A i \in 1..Len(flow[f].calls) :
       flow[f].calls[i].call = "authenticate" =>
         i = 2 /\ flow[f].calls[1] = FlowCall("is_alive", "T")
  /\ Validated =>
       /\ \A i \in 1..Len(fev.calls) :
            fev.calls[i].call = "authenticate" =>
              i = 2 /\ fev.calls[1] = FlowCall("is_alive", "T")
       /\ fev.calls = <<FlowCall("is_alive", "F"), FlowCall("close", "T")>>
            => fev.validate = "CannotConnect"
       /\ fev.calls = <<FlowCall("is_alive", "T"), FlowCall("authenticate", "F"),
                        FlowCall("close", "T")>>
            => fev.validate = "InvalidAuth"
       /\ fev.validate = "ok" <=>
            fev.calls = <<FlowCall("is_alive", "T"), FlowCall("authenticate", "T"),
                          FlowCall("close", "T")>>
       /\ fev.validate = "ok" =>
            /\ fev.udi \in Udis
            /\ fev.title = "SOMweb " \o fev.udi
       /\ fev.validate # "ok" => fev.udi = None /\ fev.title = None
       /\ fev.validate = "CannotConnect" =>
            fev.calls[1] = FlowCall("is_alive", "F")
       /\ (fev.validate = "InvalidAuth" /\ Len(fev.calls) > 0) =>
            fev.calls[2] = FlowCall("authenticate", "F")

(* a validation that found the device alive and authenticated *)
C18_Witness ==
  /\ Validated
  /\ fev.validate = "ok"
  /\ fev.title = "SOMweb udi2"
  /\ Len(fev.calls) = 3

(* ------------------------------ C19 ------------------------------------ *)
(* the step just taken ended a submission of the user step whose          *)
(* validation failed                                                       *)
UserValidationFailed ==
  fev'.step = "user" /\ fev'.validate \notin {"-", "ok"}

(* C19: in the user step every validation failure shows the form again    *)
(* with exactly one error and creates no config entry. An empty or        *)
(* missing URL in local mode gives url = invalid_url, an empty or missing *)
(* UDI in cloud mode gives id = invalid_udi, a device that is not alive   *)
(* gives base = cannot_connect, a rejected authentication (or an empty    *)
(* username or password) gives base = invalid_auth, and an exception of   *)
(* a client call gives base = unknown.                                     *)
C19_UserStepErrors ==
  [][UserValidationFailed =>
       /\ fev'.result = "form"
       /\ flow'[fev'.flow].pc = "form"
       /\ flow'[fev'.flow].step = "user"
       /\ entries' = entries
       /\ Cardinality(fev'.errors) = 1
       /\ fev'.errors =
            (IF fev'.input.mode = MODE_LOCAL /\ fev'.input.url \in {None, ""}
               THEN {<<"url", "invalid_url">>}
             ELSE IF fev'.input.mode = MODE_CLOUD /\ fev'.input.id \in {None, ""}
               THEN {<<"id", "invalid_udi">>}
             ELSE IF fev'.input.username \in {None, ""}
                       \/ fev'.input.password \in {None, ""}
               THEN {<<"base", "invalid_auth">>}
             ELSE IF Raised(fev'.calls)
               THEN {<<"base", "unknown">>}
             ELSE IF fev'.calls[1] = FlowCall("is_alive", "F")
               THEN {<<"base", "cannot_connect">>}
             ELSE IF fev'.calls[2] = FlowCall("authenticate", "F")
               THEN {<<"base", "invalid_auth">>}
             ELSE {})
  ]_vars

(* a submission in local mode with the URL left empty got the form back   *)
(* with the error on the url field, before any client call                 *)
C19_Witness ==
  /\ fev.step = "user"
  /\ fev.result = "form"
  /\ fev.input.mode = MODE_LOCAL
  /\ fev.input.url = ""
  /\ fev.calls = << >>
  /\ fev.errors = {<<"url", "invalid_url">>}
  /\ flow[fev.flow].pc = "form"

(* the other three cases of a field the mode reads: the URL absent in      *)
(* local mode, the UDI absent and the UDI left empty in cloud mode         *)
UrlMissingRejected ==
  /\ fev.step = "user" /\ fev.input.mode = MODE_LOCAL /\ fev.input.url = None
  /\ fev.errors = {<<"url", "invalid_url">>}

UdiMissingRejected ==
  /\ fev.step = "user" /\ fev.input.mode = MODE_CLOUD /\ fev.input.id = None
  /\ fev.input.username = "user"
  /\ fev.errors = {<<"id", "invalid_udi">>}

UdiEmptyRejected ==
  /\ fev.step = "user" /\ fev.input.mode = MODE_CLOUD /\ fev.input.id = ""
  /\ fev.errors = {<<"id", "invalid_udi">>}

(* ------------------------------ C20 ------------------------------------ *)
UniqueIds ==
  \A i, j \in 1..Len(entries) :
    i # j => entries[i].unique_id # entries[j].unique_id

(* C20: config entries are deduplicated by UDI. No two config entries     *)
(* ever have the same unique id, and every entry has the UDI of its       *)
(* device as unique id and in its data. A submission of the user step or  *)
(* of the discovery-confirm step whose validation succeeded for a device  *)
(* whose UDI is already configured aborts with reason already_configured  *)
(* and leaves the entries as they were, and an entry is created only for  *)
(* a UDI that was not configured.                                          *)
C20_DedupByUdi ==
  /\ [](/\ UniqueIds
        /\ \A i \in 1..Len(entries) :
             /\ entries[i].unique_id \in Udis
             /\ entries[i].data.id = entries[i].unique_id
             /\ entries[i].title = "SOMweb " \o entries[i].unique_id)
  /\ [][/\ (fev'.validate = "ok" /\ Configured(fev'.udi)) =>
            /\ fev'.result = "abort"
            /\ fev'.reason = "already_configured"
            /\ flow'[fev'.flow].pc = "none"
            /\ entries' = entries
        /\ Len(entries') > Len(entries) =>
            /\ fev'.result = "create_entry"
            /\ ~Configured(fev'.udi)
            /\ entries' = Append(entries, entries'[Len(entries')])
            /\ entries'[Len(entries')].unique_id = fev'.udi
    ]_vars

(* with both devices configured, a discovery-confirm submission for one   *)
(* of them was aborted                                                     *)
C20_Witness ==
  /\ Len(entries) = 2
  /\ fev.step = "discovery_confirm"
  /\ fev.validate = "ok"
  /\ fev.result = "abort"
  /\ fev.reason = "already_configured"

(* ------------------------------ C21 ------------------------------------ *)
(* C21: reconfiguration never produces a duplicate configuration: no two  *)
(* config entries hold the same device identifier, also after a           *)
(* successful reconfigure of one entry with an input that reaches a       *)
(* device whose UDI is registered under another entry.                    *)
C21_Original ==
  \A i, j \in 1..Len(entries) :
    i # j => entries[i].data.id # entries[j].data.id

(* ------------------------------ C22 ------------------------------------ *)
(* the entry the step just taken created or reconfigured *)
Written ==
  IF fev'.result = "create_entry" THEN entries'[Len(entries')]
                                  ELSE entries'[flow[fev'.flow].entry_id]

(* C22: the stored identifier always comes from the device. The entry a   *)
(* user step or a discovery-confirm step creates, and the entry a         *)
(* successful reconfigure updates, stores as identifier the UDI the       *)
(* device reported to that validation, whatever identifier the input      *)
(* held, and stores the URL None when the mode is cloud; mode, username   *)
(* and password, and the URL in local mode, are those of the input.       *)
C22_IdentifierFromDevice ==
  [][(fev'.result = "create_entry" \/ fev'.reason = "reconfigure_successful") =>
       /\ fev'.validate = "ok"
       /\ fev'.udi = flow[fev'.flow].udi
       /\ fev'.udi \in Udis
       /\ Written.data.id = fev'.udi
       /\ Written.data.mode = fev'.input.mode
       /\ Written.data.username = fev'.input.username
       /\ Written.data.password = fev'.input.password
       /\ Written.data.url = IF fev'.input.mode = MODE_CLOUD THEN None
                                                            ELSE fev'.input.url
  ]_vars

(* a reconfigure in cloud mode with the identifier udi1 typed in reached  *)
(* a device reporting udi2: the entry stores udi2 and no URL              *)
C22_Witness ==
  /\ fev.reason = "reconfigure_successful"
  /\ fev.input.mode = MODE_CLOUD
  /\ fev.input.id = "udi1"
  /\ fev.input.url # None
  /\ fev.udi = "udi2"
  /\ \E i \in 1..Len(entries) :
       entries[i].data.id = "udi2" /\ entries[i].unique_id = "udi1"
                                  /\ entries[i].data.url = None

(* ------------------------------ C23 ------------------------------------ *)
(* the error a failed validation of the event e is to be shown with *)
MatchingError(e) ==
  CASE e.validate = "InvalidSomwebUrl" -> {<<"url", "invalid_url">>}
    [] e.validate = "InvalidSomwebUdi" -> {<<"id", "invalid_udi">>}
    [] e.validate = "CannotConnect"    -> {<<"base", "cannot_connect">>}
    [] e.validate = "InvalidAuth"      -> {<<"base", "invalid_auth">>}
    [] e.validate = "Exception"        -> {<<"base", "unknown">>}
    [] OTHER                           -> {}

(* C23: reconfigure changes the entry only on success. When the           *)
(* validation of the submitted input fails (device not alive,             *)
(* authentication rejected, invalid URL or UDI, an exception) the form of *)
(* the reconfigure step is shown again with the matching error and no     *)
(* entry changes. When it succeeds the data of the reconfigured entry is  *)
(* replaced by the submitted input with the device's UDI as identifier    *)
(* and URL None in cloud mode, its title becomes "SOMweb <udi>", no other *)
(* entry changes, and the flow ends with an abort of reason               *)
(* reconfigure_successful.                                                 *)
C23_ReconfigureOnlyOnSuccess ==
  [][(fev'.step = "reconfigure" /\ fev'.validate # "-") =>
       LET f == fev'.flow
           k == flow[f].entry_id
       IN
       IF fev'.validate # "ok"
         THEN /\ fev'.result = "form"
              /\ fev'.errors = MatchingError(fev')
              /\ Cardinality(fev'.errors) = 1
              /\ flow'[f].pc = "form"
              /\ flow'[f].step = "reconfigure"
              /\ flow'[f].entry_id = k
              /\ entries' = entries
         ELSE /\ fev'.result = "abort"
              /\ fev'.reason = "reconfigure_successful"
              /\ flow'[f].pc = "none"
              /\ Len(entries') = Len(entries)
              /\ \A i \in 1..Len(entries) : i # k => entries'[i] = entries[i]
              /\ entries'[k].unique_id = entries[k].unique_id
              /\ entries'[k].title = "SOMweb " \o fev'.udi
              /\ entries'[k].data =
                   [mode |-> fev'.input.mode,
                    id |-> fev'.udi,
                    url |-> IF fev'.input.mode = MODE_CLOUD
                              THEN None ELSE fev'.input.url,
                    username |-> fev'.input.username,
                    password |-> fev'.input.password]
  ]_vars

(* a reconfigure whose authentication was rejected left an entry as the   *)
(* user step created it                                                    *)
C23_Witness ==
  /\ fev.step = "reconfigure"
  /\ fev.validate = "InvalidAuth"
  /\ Len(fev.calls) = 3
  /\ fev.errors = {<<"base", "invalid_auth">>}
  /\ flow["reconfigure"].pc = "form"
  /\ flow["reconfigure"].entry_id = 1
  /\ entries[1].data.id = entries[1].unique_id

(* ------------------------------ C24 ------------------------------------ *)
(* the announced hostnames that, lower-cased and without trailing dots,   *)
(* start with "somweb"                                                     *)
SomwebHostnames ==
  {<<"s", "o", "m", "w", "e", "b", ".", "l", "o", "c", "a", "l", ".">>,
   <<"S", "O", "M", "w", "e", "b", "-", "2">>}

(* the step just taken ended a zeroconf probe whose close() returned *)
ProbeEnded ==
  /\ fev'.flow = "zeroconf"
  /\ fev'.validate = "-"
  /\ Len(fev'.calls) > 0
  /\ fev'.calls[Len(fev'.calls)] = FlowCall("close", "T")

(* C24: outcomes of a zeroconf discovery. A hostname that, lower-cased    *)
(* and with trailing dots removed, does not start with "somweb" aborts    *)
(* with not_somweb_device, with no client constructed and no call made;   *)
(* any other hostname gets a client and the is_alive probe. A probe that  *)
(* finds the device not alive, or in which is_alive or get_udi raises,    *)
(* aborts with cannot_connect; a discovered UDI that is configured aborts *)
(* with already_configured; otherwise the discovery_confirm form is shown *)
(* and the flow holds the discovered URL and the discovered UDI (none     *)
(* when the device reported an empty one).                                 *)
C24_ZeroconfOutcomes ==
  [][/\ fev'.hostname # NoHostname =>
          IF fev'.hostname \in SomwebHostnames
            THEN /\ fev'.result = "-"
                 /\ flow'["zeroconf"].pc = "z_alive"
                 /\ flow'["zeroconf"].client = [constructed |-> 1, closed |-> 0]
                 /\ flow'["zeroconf"].discovery_info =
                      [url |-> "http://10.0.0.7", mode |-> MODE_LOCAL, id |-> None]
            ELSE /\ fev'.result = "abort"
                 /\ fev'.reason = "not_somweb_device"
                 /\ fev'.client = NoClient
                 /\ fev'.calls = << >>
                 /\ flow'["zeroconf"] = NoFlow
     /\ ProbeEnded =>
          IF fev'.calls[1] # FlowCall("is_alive", "T")
               \/ fev'.calls[2] = FlowCall("get_udi", "X")
            THEN /\ fev'.result = "abort"
                 /\ fev'.reason = "cannot_connect"
                 /\ flow'["zeroconf"] = NoFlow
            ELSE IF fev'.udi # None /\ Configured(fev'.udi)
              THEN /\ fev'.result = "abort"
                   /\ fev'.reason = "already_configured"
                   /\ flow'["zeroconf"] = NoFlow
              ELSE /\ fev'.result = "form"
                   /\ fev'.step = "discovery_confirm"
                   /\ fev'.errors = {}
                   /\ flow'["zeroconf"].pc = "form"
                   /\ flow'["zeroconf"].step = "discovery_confirm"
                   /\ flow'["zeroconf"].discovery_info =
                        [url |-> "http://10.0.0.7", mode |-> MODE_LOCAL,
                         id |-> fev'.udi]
  ]_vars

(* with one device configured, a probe found another device, and the      *)
(* confirm form is shown for it                                            *)
C24_Witness ==
  /\ fev.flow = "zeroconf"
  /\ fev.result = "form"
  /\ fev.step = "discovery_confirm"
  /\ fev.udi = "udi2"
  /\ Len(entries) = 1
  /\ flow["zeroconf"].discovery_info.id = "udi2"

(* ------------------------------ C25 ------------------------------------ *)
(* every door_action call of the invocation a was sent for the door of    *)
(* the invocation with the action its target calls for                    *)
MappedAction(a) ==
  \A i \in 1..Len(a.trace) :
    a.trace[i].call = "door_action" =>
      /\ a.trace[i].door = a.door
      /\ a.target = "OPEN" => a.trace[i].arg = "OPEN"
      /\ a.target = "CLOSED" => a.trace[i].arg = "CLOSE"
      /\ a.target = "UNKNOWN" => a.trace[i].arg = "CLOSE"
      /\ a.trace[i].door = a.trace[1].door
      /\ a.trace[i].arg = a.trace[1].arg

(* C25: the target-to-action mapping is total. A door action sends the    *)
(* action OPEN when the target status is OPEN and the action CLOSE for    *)
(* the targets CLOSED and UNKNOWN, and a retry sends the same action for  *)
(* the same door id as the first attempt.                                  *)
C25_TargetToAction ==
  /\ MappedAction(inv["act"])
  /\ MappedAction(ev.act)
  /\ ev.act.result # "-" => ev.act.target \in DoorStatusType

(* a door action with target UNKNOWN sent CLOSE, and CLOSE again in its   *)
(* retry                                                                   *)
C25_Witness ==
  /\ ev.act.result # "-"
  /\ ev.act.target = "UNKNOWN"
  /\ Count(ev.act.trace, "door_action") = 2
  /\ ev.act.trace[1].arg = "CLOSE"
  /\ ev.act.trace[4].arg = "CLOSE"

(* ------------------------------ C26 ------------------------------------ *)
PollFirmwarePcs == {"poll_fw_info", "poll_fw_avail"}

(* C26: the firmware throttle holds under interleaving. The poll cycle    *)
(* forced by a door action and a scheduled poll cycle are never both      *)
(* inside the firmware/device-info refresh: they never both pass the      *)
(* due-check and both call get_device_info.                                *)
C26_Original ==
  ~(pc["main"] \in PollFirmwarePcs /\ pc["act"] \in PollFirmwarePcs)

(* ------------------------------ C27 ------------------------------------ *)
(* C27: freshness after an action under interleaving. Once a door action  *)
(* has returned true, a scheduled poll cycle that had queried the door of *)
(* the action before wait_for_door_state returned does not publish: the   *)
(* status of that door in the published snapshot is the one a query made  *)
(* after wait_for_door_state returned has given, never the older one.     *)
C27_Original ==
  ~(/\ ev.task = "main"
    /\ ev.cyc.out = "published"
    /\ ev.cyc.over # {})

(* ------------------------------ C28 ------------------------------------ *)
(* in the trace tr of a door action, wait_for_door_state comes at most    *)
(* once and right after a door_action that returned true                  *)
WaitAfterSend(tr) ==
  /\ Count(tr, "wait_for_door_state") <= 1
  /\ \A i \in 1..Len(tr) :
       tr[i].call = "wait_for_door_state" =>
         /\ i > 1
         /\ tr[i - 1].call = "door_action"
         /\ tr[i - 1].out = "T"
         /\ tr[i - 1].door = tr[i].door
  /\ (Reconnected(tr) /\ ~ReconnectedOk(tr)) =>
       Count(tr, "wait_for_door_state") = 0
  /\ (Count(tr, "door_action") = 2 /\ tr[4].out # "T") =>
       Count(tr, "wait_for_door_state") = 0

(* C28: ordering inside a door action. wait_for_door_state is called at   *)
(* most once per invocation and only after a door_action call of that     *)
(* invocation returned true; it is never called after a failed            *)
(* reconnection or after a failed retry. (An invocation suspended in      *)
(* wait_for_door_state has a door_action that returned true as its        *)
(* latest call.)                                                           *)
C28_WaitOrdering ==
  /\ WaitAfterSend(inv["act"].trace)
  /\ WaitAfterSend(ev.act.trace)
  /\ pc["act"] = "act_wait" =>
       LET tr == inv["act"].trace IN
       /\ Len(tr) > 0
       /\ tr[Len(tr)].call = "door_action"
       /\ tr[Len(tr)].out = "T"
       /\ Count(tr, "wait_for_door_state") = 0

(* a door action whose retry returned true waited for the door once *)
C28_Witness ==
  /\ ev.act.result # "-"
  /\ Count(ev.act.trace, "door_action") = 2
  /\ ev.act.trace[4].out = "T"
  /\ ev.act.trace[5].call = "wait_for_door_state"
  /\ Count(ev.act.trace, "wait_for_door_state") = 1

(* ------------------------------ C29 ------------------------------------ *)
(* in the trace tr, a door_action that returned true (the first call, or  *)
(* the retry after a reconnection that succeeded) is followed by a        *)
(* wait_for_door_state that returned                                       *)
SentAndWaited(tr) ==
  \E i \in 1..(Len(tr) - 1) :
    /\ tr[i].call = "door_action"
    /\ tr[i].out = "T"
    /\ i = 1 \/ (i = 4 /\ tr[1].out = "F" /\ ReconnectedOk(tr))
    /\ tr[i + 1].call = "wait_for_door_state"
    /\ tr[i + 1].out = "T"

(* C29: a door action returns true exactly when a door_action returned    *)
(* true (the first one, or the single retry after a successful            *)
(* reconnection) and wait_for_door_state then returned normally. The      *)
(* result is true then whether the forced poll cycle that follows         *)
(* published a snapshot or failed.                                         *)
C29_ReturnsTrueIff ==
  ev.act.result # "-" =>
    /\ ev.act.result \in {"T", "F"}
    /\ ev.act.result = "T" <=> SentAndWaited(ev.act.trace)
    /\ SentAndWaited(ev.act.trace) =>
         /\ ev.cyc.out \in {"published", "failed"}
         /\ ev.act.result = "T"
    /\ ~SentAndWaited(ev.act.trace) => ev.cyc.out = "-"

(* a door action returned true although the poll cycle it forced failed *)
C29_Witness ==
  /\ ev.act.result = "T"
  /\ SentAndWaited(ev.act.trace)
  /\ ev.cyc.out = "failed"

(* ------------------------------ C30 ------------------------------------ *)
(* C30: when the first door_action call raises an exception, the door     *)
(* action runs neither the reconnection protocol nor a retry: that call   *)
(* is the only client call of the invocation, which returns false in the  *)
(* step in which the call raised.                                          *)
C30_RaiseNoRetry ==
  /\ (ev.act.result # "-" /\ ev.act.trace[1].out = "X") =>
       /\ ev.act.result = "F"
       /\ Len(ev.act.trace) = 1
       /\ ev.act.trace[1].call = "door_action"
       /\ ev.act.calls = 1
       /\ ev.rc = NoReconnect
       /\ ev.cyc.out = "-"
       /\ pc["act"] = "idle"
  /\ (Len(inv["act"].trace) > 0 /\ pc["act"] # "idle") =>
       /\ inv["act"].trace[1].call = "door_action"
       /\ inv["act"].trace[1].out # "X"

(* the first door_action raised and the action returned false *)
C30_Witness ==
  /\ ev.act.result = "F"
  /\ Len(ev.act.trace) = 1
  /\ ev.act.trace[1].call = "door_action"
  /\ ev.act.trace[1].out = "X"

(* --- C31 --------------------------------------------------------------- *)
(* C31: a door action that returns false leaves the coordinator's state    *)
(* untouched: when async_execute_door_action returns false, the published  *)
(* snapshot, the door list, the held device_info, the held firmware flag   *)
(* and the last firmware-check timestamp are what they were when the call  *)
(* was made.                                                               *)
C31_FailedActionFrame ==
  ev.act.result = "F" => CoordinatorState = ev.act.pre

(* a door action has returned false after a reconnection that re-          *)
(* authenticated and a retry that the device rejected                      *)
C31_Witness ==
  /\ ev.act.result = "F"
  /\ Count(ev.act.trace, "authenticate") = 1
  /\ Count(ev.act.trace, "door_action") = 2
  /\ data # NoData

(* --- C32 --------------------------------------------------------------- *)
(* the cycle whose step has just been taken: the one that ended with the   *)
(* step, or else the one its task has under way                            *)
CycleOfStep ==
  IF ev.cyc.out # "-" THEN ev.cyc
  ELSE IF ev.task \in Tasks THEN cyc[ev.task] ELSE NoCycle

(* C32: liveness gates the poll cycle.  Every poll cycle calls is_alive    *)
(* first; get_door_status is called in a cycle only if that call returned  *)
(* true or the reconnection protocol then succeeded; and a poll cycle      *)
(* calls authenticate only when its first is_alive call returned false and *)
(* the reconnection protocol's own is_alive call then returned true.       *)
C32_LivenessGatesCycle ==
  /\ \A t \in Tasks :
       LET c == cyc[t] IN
       /\ pc[t] = "poll_alive" =>
            (c.alive = "-" /\ c.rc = "-" /\ c.q = NoStatuses /\ c.fwstep = "-")
       /\ pc[t] \in PollPcs \ {"poll_alive"} => c.alive # "-"
       /\ (pc[t] = "poll_status" \/ c.q # NoStatuses) =>
            (c.alive = "T" \/ (c.alive = "F" /\ c.rc = "T"))
       /\ pc[t] = "poll_rc_auth" => (c.alive = "F" /\ rcrun[t].alive = "T")
  /\ LET c == ev.cyc IN
     c.out # "-" =>
       /\ c.alive # "-"
       /\ c.q # NoStatuses => (c.alive = "T" \/ (c.alive = "F" /\ c.rc = "T"))
  /\ (ev.rc.auth # "-" /\ CycleOfStep.rc # "-") =>
       (CycleOfStep.alive = "F" /\ ev.rc.alive = "T")

(* a cycle has published door states it queried after its first is_alive   *)
(* returned false and the reconnection re-authenticated                    *)
C32_Witness ==
  /\ ev.cyc.out = "published"
  /\ ev.cyc.alive = "F"
  /\ ev.cyc.rc = "T"
  /\ ev.cyc.q # NoStatuses

(* --- C33 --------------------------------------------------------------- *)
(* C33: a never-yet-succeeded firmware refresh counts as due.  The         *)
(* timestamp of the last check is absent exactly while no refresh has      *)
(* succeeded (a failed refresh, the one of setup included, does not set    *)
(* it); while it is absent a refresh is due, and every administrator poll  *)
(* cycle that reaches the firmware step starts one; once a refresh has     *)
(* succeeded a cycle starts one only when the throttle interval has        *)
(* passed since that success.                                              *)
C33_NeverSucceededIsDue ==
  /\ (_last_firmware_check = Never) <=> (fw_ok_at = Never)
  /\ fw_ok_at = Never => _should_check_firmware
  /\ (ev.cyc.fwstep = "skipped" /\ is_admin) => fw_ok_at # Never
  /\ (ev.cyc.fwstep = "started" /\ fw_ok_at # Never) =>
       (_last_firmware_check = fw_ok_at /\ now >= fw_ok_at + FIRMWARE_CHECK_HOURS)

(* after setup, with earlier firmware calls made and none of the refreshes *)
(* having succeeded, a poll cycle starts a refresh again although no time  *)
(* has passed                                                              *)
C33_Witness ==
  /\ ev.cyc.fwstep = "started"
  /\ phase = "ready"
  /\ fw_called
  /\ fw_ok_at = Never
  /\ now = 0

(* --- C34 --------------------------------------------------------------- *)
(* C34 as claimed: no collaborator exception leaves the coordinator raw.   *)
(* An exception raised by a client call made during setup, a poll cycle or *)
(* an action turns into UNKNOWN for a door, a failed update / not-ready    *)
(* signal, or a false result: setup never ends by propagating the client's *)
(* exception, a cycle whose is_alive or reconnection raised ends as a      *)
(* failed update, a door whose query raised is published as UNKNOWN, and a *)
(* door action ends with a boolean.                                        *)
C34_Original ==
  /\ phase # "raised"
  /\ ev.act.result \in {"-", "running", "T", "F"}
  /\ ev.cyc.out \in {"-", "failed", "published"}
  /\ ev.cyc.alive = "X" => ev.cyc.out = "failed"
  /\ ev.cyc.out = "published" =>
       \A d \in DOMAIN ev.cyc.q :
         ev.cyc.q[d] = Raise => data[1].doors[d] = "UNKNOWN"

(* --- C35 --------------------------------------------------------------- *)
(* this run of async_setup_entry has set nothing up: it created no         *)
(* coordinator, the coordinator fields (the door list among them) are what *)
(* they were when the run began, so no door list was fetched, runtime_data *)
(* was not set and no platform is set up                                   *)
NothingSetUp ==
  LET s == setup_entry IN
  /\ ~s.coordinator
  /\ phase = s.pre.phase
  /\ _doors = s.pre.doors
  /\ runtime_data = s.pre.runtime_data
  /\ platforms = {}
  /\ entities = {}

(* C35: config-entry setup creates the coordinator only after the device   *)
(* proved reachable and authenticated.  authenticate is called only after  *)
(* is_alive returned true; is_alive false ends the setup with the          *)
(* not-ready condition without a call of authenticate; authenticate        *)
(* without success ends it returning false; in both cases no coordinator   *)
(* is created, no door list is fetched, runtime_data is not set and no     *)
(* platform is set up; and a run has a coordinator, or sets runtime_data   *)
(* or a platform up, only after both calls succeeded.                      *)
C35_CoordinatorAfterAuth ==
  LET s == setup_entry IN
  /\ s.pc = "authenticate" => s.calls = <<[call |-> "is_alive", out |-> "T"]>>
  /\ (Len(s.calls) >= 1 /\ s.calls[1].out = "F") =>
       (s.result = "not_ready" /\ Len(s.calls) = 1 /\ NothingSetUp)
  /\ (Len(s.calls) = 2 /\ s.calls[2].out = "F") =>
       (s.result = "F" /\ NothingSetUp)
  /\ (s.coordinator \/ platforms # {}) =>
       s.calls = <<[call |-> "is_alive", out |-> "T"],
                  [call |-> "authenticate", out |-> "T"]>>
  /\ (s.pc \in {"is_alive", "authenticate"}
        \/ (s.result \in {"F", "raised", "not_ready"} /\ ~s.coordinator))
       => NothingSetUp
  /\ platforms # {} => (s.result = "T" /\ runtime_data)

(* the setup has returned false after authenticate reported no success *)
C35_Witness ==
  /\ setup_entry.result = "F"
  /\ setup_entry.calls = <<[call |-> "is_alive", out |-> "T"],
                           [call |-> "authenticate", out |-> "F"]>>
  /\ NothingSetUp

(* --- C36 --------------------------------------------------------------- *)
(* a command of the entity is under way: begun, its finally clause not yet *)
(* reached                                                                 *)
CommandUnderWay == \E u \in CmdTasks : cpc[u] \in CommandPcs

(* the update a finished command forced was not skipped and queried the    *)
(* door                                                                    *)
ForcedUpdateRan ==
  /\ cev.done.path \in {"accepted", "rejected", "exception"}
  /\ cev.done.forced = "ran"
  /\ Count(cev.done.trace, "get_door_status") >= 1
  /\ cev.upd \in {"refreshed", "off_grid"}

C37_Original ==
  "binary_sensor" \in platforms => ((entities # {}) <=> is_admin)

(* --- C38 --------------------------------------------------------------- *)
(* the data d2 holds every key of d1 other than the URL with d1's value,   *)
(* and no key beyond those of d1 and the URL                               *)
KeepsOtherKeys(d1, d2) ==
  /\ \A k \in DOMAIN d1 \ {CONF_URL} : k \in DOMAIN d2 /\ d2[k] = d1[k]
  /\ DOMAIN d2 \subseteq DOMAIN d1 \cup {CONF_URL}

(* C38: config-entry migration is idempotent and preserves data.  For an   *)
(* entry at version 1, async_migrate_entry sets URL to None only when the  *)
(* minor version is below 2 (and leaves the data as it is otherwise),      *)
(* keeps every other stored key and value, sets the minor version to 2     *)
(* and returns true; running it again on the result changes nothing.       *)
C38_MigrationIdempotent ==
  LET m == migrated IN
  (m.runs >= 1 /\ m.first.version = 1) =>
    /\ m.returned = "true"
    /\ config_entry.version = 1
    /\ config_entry.minor_version = 2
    /\ KeepsOtherKeys(m.first.data, config_entry.data)
    /\ IF m.first.minor_version < 2
         THEN /\ CONF_URL \in DOMAIN config_entry.data
              /\ config_entry.data[CONF_URL] = None
         ELSE config_entry.data = m.first.data
    /\ m.runs >= 2 => config_entry = m.before
    /\ MigrateEntry(config_entry) = config_entry

(* an entry of minor version 1 that stored a URL has been migrated twice:  *)
(* the first run reset the URL, the second changed nothing                 *)
C38_Witness ==
  /\ migrated.runs = 2
  /\ migrated.first.version = 1
  /\ migrated.first.minor_version = 1
  /\ CONF_URL \in DOMAIN migrated.first.data
  /\ migrated.first.data[CONF_URL] # None
  /\ config_entry.data[CONF_URL] = None
  /\ config_entry = migrated.before

====
